---- MODULE Spec2Model ----
(***************************************************************************)
(* Tile-grid planning, per-tile fetch with retry, the four download        *)
(* strategies (sequential, thread pool, async, MPI) and their              *)
(* post-processing, modelled from src/scripts/maps_core.py,                *)
(* maps_sequential.py, maps_fast.py, maps_async.py, maps_mpi.py and        *)
(* maps.py.                                                                *)
(*                                                                         *)
(* The specifications of the module:                                       *)
(*   FetchSpec  the three tile fetchers run, one loop iteration per step,  *)
(*              against one common sequence of provider responses;         *)
(*   Spec       one download job under one strategy;                       *)
(*   TermSpec   one download job on a small grid, run to its end under     *)
(*              fair scheduling, with its HTTP requests counted;           *)
(*   AsyncSpec  the async strategy under the event loop's scheduling;      *)
(*   MpiSpec    the MPI strategy on two or more ranks under mpirun;        *)
(*   SliceSpec  the MPI partition of a request list;                       *)
(*   GridSpec   the tile centres of calculate_tile_grid, tile by tile;       *)
(*   EntrySpec  one call of the unified entry point download_satellite_map;*)
(*   StitchSpec stitch_mosaic, pixel by pixel, called on two tile lists.   *)
(***************************************************************************)
EXTENDS Integers, Sequences, FiniteSets, TLC

\* ------------------------------------------------------------------------
\* Provider responses
\* ------------------------------------------------------------------------

\* What one HTTP call can produce: a response with a status code and a
\* content type that is or is not image/*, or an exception raised by the
\* call (timeout, connection error). The body of an image response may be
\* corrupt: Image.open then raises.
Responses ==
    { [kind |-> "http", status |-> 200, image |-> TRUE,  corrupt |-> FALSE],
      [kind |-> "http", status |-> 200, image |-> TRUE,  corrupt |-> TRUE],
      [kind |-> "http", status |-> 200, image |-> FALSE, corrupt |-> FALSE],
      [kind |-> "http", status |-> 403, image |-> FALSE, corrupt |-> FALSE],
      [kind |-> "http", status |-> 429, image |-> FALSE, corrupt |-> FALSE],
      [kind |-> "http", status |-> 500, image |-> FALSE, corrupt |-> FALSE],
      [kind |-> "exc",  status |-> 0,   image |-> FALSE, corrupt |-> FALSE] }

IsHttp(r, code) == r.kind = "http" /\ r.status = code
Is4xxNot429(r)  == r.kind = "http" /\ 400 <= r.status /\ r.status < 500 /\ r.status # 429
Is5xx(r)        == r.kind = "http" /\ r.status >= 500
IsNonImage200(r) == IsHttp(r, 200) /\ ~r.image
IsDecodeError(r) == IsHttp(r, 200) /\ r.image /\ r.corrupt

\* ------------------------------------------------------------------------
\* The three fetchers: one iteration of the retry loop.
\* Each returns what the iteration does: "ok" (return the image), "fail"
\* (return failure at once), "continue" (go to the next iteration) or "raise"
\* (an exception leaves the function), and whether a sleep happens in this
\* iteration.
\* ------------------------------------------------------------------------

SingleMaxRetries     == 3
AggressiveMaxRetries == 5
AsyncMaxRetries      == 3

\* requests.get + raise_for_status raises HTTPError for 4xx and 5xx.
raise_for_status(r) == r.kind = "http" /\ 400 <= r.status /\ r.status < 600

\* As download_single_tile, without the early return for 4xx other than 429.
download_single_tile_Retry4xx(attempt, r) ==
    IF r.kind = "exc"
    THEN [next |-> "continue", sleep |-> attempt < SingleMaxRetries - 1]
    ELSE IF raise_for_status(r)
    THEN [next |-> "continue", sleep |-> attempt < SingleMaxRetries - 1]
    ELSE IF r.image
    THEN IF r.corrupt
         THEN [next |-> "continue", sleep |-> attempt < SingleMaxRetries - 1]
         ELSE [next |-> "ok", sleep |-> FALSE]
    ELSE [next |-> "fail", sleep |-> FALSE]

download_single_tile(attempt, r) ==
    IF r.kind = "exc"
    THEN [next |-> "continue", sleep |-> attempt < SingleMaxRetries - 1]
    ELSE IF raise_for_status(r)
    THEN IF 400 <= r.status /\ r.status < 500 /\ r.status # 429
         THEN [next |-> "fail", sleep |-> FALSE]
         ELSE [next |-> "continue", sleep |-> attempt < SingleMaxRetries - 1]
    ELSE IF r.image
    THEN IF r.corrupt
         THEN [next |-> "continue", sleep |-> attempt < SingleMaxRetries - 1]
         ELSE [next |-> "ok", sleep |-> FALSE]
    ELSE [next |-> "fail", sleep |-> FALSE]

\* As download_tile_aggressive, without the 429 branch: 429 is handled as any
\* other client error.
download_tile_aggressive_No429(attempt, r) ==
    IF r.kind = "exc"
    THEN [next |-> "continue", sleep |-> TRUE]
    ELSE IF r.status = 200
    THEN IF r.image
         THEN IF r.corrupt
              THEN [next |-> "continue", sleep |-> TRUE]
              ELSE [next |-> "ok", sleep |-> FALSE]
         ELSE [next |-> "fail", sleep |-> FALSE]
    ELSE IF r.status >= 500
    THEN [next |-> "continue", sleep |-> TRUE]
    ELSE [next |-> "fail", sleep |-> FALSE]

download_tile_aggressive(attempt, r) ==
    IF r.kind = "exc"
    THEN [next |-> "continue", sleep |-> TRUE]
    ELSE IF r.status = 200
    THEN IF r.image
         THEN IF r.corrupt
              THEN [next |-> "continue", sleep |-> TRUE]
              ELSE [next |-> "ok", sleep |-> FALSE]
         ELSE [next |-> "fail", sleep |-> FALSE]
    ELSE IF r.status = 429
    THEN [next |-> "continue", sleep |-> TRUE]
    ELSE IF r.status >= 500
    THEN [next |-> "continue", sleep |-> TRUE]
    ELSE [next |-> "fail", sleep |-> FALSE]

\* As download_tile_async, without the try/except around the attempt.
download_tile_async_NoExcept(attempt, r) ==
    IF r.kind = "exc"
    THEN [next |-> "raise", sleep |-> FALSE]
    ELSE IF r.status = 200
    THEN IF r.image
         THEN IF r.corrupt
              THEN [next |-> "raise", sleep |-> FALSE]
              ELSE [next |-> "ok", sleep |-> FALSE]
         ELSE [next |-> "continue", sleep |-> FALSE]
    ELSE IF r.status = 429
    THEN [next |-> "continue", sleep |-> TRUE]
    ELSE [next |-> "fail", sleep |-> FALSE]

download_tile_async(attempt, r) ==
    IF r.kind = "exc"
    THEN [next |-> "continue", sleep |-> attempt < 2]
    ELSE IF r.status = 200
    THEN IF r.image
         THEN IF r.corrupt
              THEN [next |-> "continue", sleep |-> attempt < 2]
              ELSE [next |-> "ok", sleep |-> FALSE]
         ELSE [next |-> "continue", sleep |-> FALSE]
    ELSE IF r.status = 429
    THEN [next |-> "continue", sleep |-> TRUE]
    ELSE [next |-> "fail", sleep |-> FALSE]

Fetchers == {"single", "aggressive", "async"}

MaxRetries(f) ==
    CASE f = "single"     -> SingleMaxRetries
      [] f = "aggressive" -> AggressiveMaxRetries
      [] f = "async"      -> AsyncMaxRetries

\* As Attempt, without the fetchers' `except Exception` around the HTTP call
\* and Image.open: a timeout, a connection error or a decode error leaves the
\* fetcher.
Attempt_NoExcept(f, attempt, r) ==
    IF r.kind = "exc" \/ IsDecodeError(r)
    THEN [next |-> "raise", sleep |-> FALSE]
    ELSE CASE f = "single"     -> download_single_tile(attempt, r)
           [] f = "aggressive" -> download_tile_aggressive(attempt, r)
           [] f = "async"      -> download_tile_async(attempt, r)

\* One iteration of fetcher f's retry loop.
Attempt(f, attempt, r) ==
    CASE f = "single"     -> download_single_tile(attempt, r)
      [] f = "aggressive" -> download_tile_aggressive(attempt, r)
      [] f = "async"      -> download_tile_async(attempt, r)

\* As AfterAttempt, with the loop running one iteration more.
AfterAttempt_OneMore(f, attempt, next) ==
    CASE next = "ok"    -> "ok"
      [] next = "fail"  -> "fail"
      [] next = "raise" -> "raised"
      [] OTHER          -> IF attempt < MaxRetries(f) THEN "running" ELSE "fail"

\* As AfterAttempt, with the loop giving up one iteration early.
AfterAttempt_StopsEarly(f, attempt, next) ==
    CASE next = "ok"    -> "ok"
      [] next = "fail"  -> "fail"
      [] next = "raise" -> "raised"
      [] OTHER          -> IF attempt + 2 < MaxRetries(f) THEN "running" ELSE "fail"

\* The state of a fetch after iteration `attempt` (0-based) ended with `next`:
\* the loop `for attempt in range(max_retries)` runs out after the last
\* iteration and the function returns failure; an exception that no handler
\* catches ends the call.
AfterAttempt(f, attempt, next) ==
    CASE next = "ok"    -> "ok"
      [] next = "fail"  -> "fail"
      [] next = "raise" -> "raised"
      [] OTHER          -> IF attempt + 1 < MaxRetries(f) THEN "running" ELSE "fail"

\* ------------------------------------------------------------------------
\* Grid planning (maps_core.calculate_tile_grid)
\* ------------------------------------------------------------------------

MaxExtent  == 3     \* largest bounding-box extent, in metres
MaxGrid    == 6     \* largest grid (num_rows * num_cols) the sequential strategy is run on
MaxTiles   == 3     \* largest grid the MPI strategy is run on
MaxPoolTiles == 2   \* largest grid the thread-pool and async strategies are run on
MaxPartTiles == 12  \* SliceSpec: largest total_tiles
MaxPartRanks == 5   \* SliceSpec: largest communicator size
MaxWorkers == 2     \* largest max_workers / max_concurrent
MaxRanks   == 2     \* largest MPI communicator size

Max(a, b) == IF a >= b THEN a ELSE b
Min(a, b) == IF a <= b THEN a ELSE b

\* int(math.ceil(a / b)) for b > 0
Ceil(a, b) == -((-a) \div b)

\* for j in range(num_cols): the first n requests of row i.
RECURSIVE inner_loop_RowStride(_, _, _, _)
inner_loop_RowStride(i, n, num_rows, num_cols) ==
    IF n = 0 THEN <<>>
    ELSE Append(inner_loop_RowStride(i, n - 1, num_rows, num_cols),
                [row |-> i, col |-> n - 1, index |-> i * num_rows + (n - 1)])

RECURSIVE inner_loop(_, _, _, _)
inner_loop(i, n, num_rows, num_cols) ==
    IF n = 0 THEN <<>>
    ELSE Append(inner_loop(i, n - 1, num_rows, num_cols),
                [row |-> i, col |-> n - 1, index |-> i * num_cols + (n - 1)])

\* for i in range(num_rows): the requests of the first m rows.
RECURSIVE outer_loop(_, _, _)
outer_loop(m, num_rows, num_cols) ==
    IF m = 0 THEN <<>>
    ELSE outer_loop(m - 1, num_rows, num_cols)
           \o inner_loop(m - 1, num_cols, num_rows, num_cols)

calculate_tile_grid(lat_meters, lon_meters, meters_per_tile) ==
    LET num_rows == Max(1, Ceil(lat_meters, meters_per_tile))
        num_cols == Max(1, Ceil(lon_meters, meters_per_tile))
    IN [tile_requests |-> outer_loop(num_rows, num_rows, num_cols),
        num_rows |-> num_rows,
        num_cols |-> num_cols,
        metadata |-> [center_lat |-> "center_lat", center_lon |-> "center_lon",
                      meters_per_pixel |-> "meters_per_pixel",
                      meters_per_tile |-> meters_per_tile,
                      num_rows |-> num_rows, num_cols |-> num_cols,
                      total_tiles |-> num_rows * num_cols,
                      zoom |-> "zoom", tile_size_px |-> "tile_size_px"]]

\* Pixel coordinates are kept in half pixels, so that (num_cols - 1) / 2.0 is
\* a whole number: the operators below return twice the source's value.

\* The offset counted from the grid's first column, not from its middle.
dx_px_FromCorner(j, num_cols, step_px) == 2 * j * step_px

\* dx_px = (j - (num_cols - 1) / 2.0) * step_px
dx_px(j, num_cols, step_px) == (2 * j - (num_cols - 1)) * step_px

\* dy_px = (i - (num_rows - 1) / 2.0) * step_px
dy_px(i, num_rows, step_px) == (2 * i - (num_rows - 1)) * step_px

\* One iteration of the tile loop: x = cx + dx_px, y = cy + dy_px for tile
\* (i, j), with step_px = tile_size_px.
tile_center(i, j, g) ==
    LET step_px == g.tile_size_px
    IN [row |-> i, col |-> j,
        x |-> g.cx + dx_px(j, g.num_cols, step_px),
        y |-> g.cy + dy_px(i, g.num_rows, step_px)]


\* ------------------------------------------------------------------------
\* Images, tile results, sorting, stitching
\* ------------------------------------------------------------------------

NoImage == [tile |-> -1, enc |-> "none"]

\* Image.open(BytesIO(content)) followed by the crop: the decoded image of
\* the tile the request was for.
DecodedImage(k) == [tile |-> k, enc |-> "decoded"]

NoFile == <<>>
NoFiles == [c \in {} |-> NoFile]
NoThreads == [k \in {} |-> 0]
NoSessions == [t \in {} |-> 0]
\* The decimal digits of n >= 0.
RECURSIVE Digits(_)
Digits(n) == IF n < 10 THEN <<n>> ELSE Append(Digits(n \div 10), n % 10)

\* f"{n:03d}": the digits of n, with zeros in front up to three places.
Pad3(n) ==
    LET d == Digits(n)
    IN IF Len(d) >= 3 THEN d ELSE [i \in 1..(3 - Len(d)) |-> 0] \o d

\* A file name made from the row alone.
TilePath_RowOnly(row, col) == Pad3(row) \o <<-1>> \o Pad3(0)

\* os.path.join(temp_dir, f"tile_{row:03d}_{col:03d}.jpg"): the name's two
\* numbers, with -1 for the underscore between them.
TilePath(row, col) == Pad3(row) \o <<-1>> \o Pad3(col)

\* results.sort(key=lambda x: x['index']): a stable sort, here by insertion.
RECURSIVE InsertByIndex(_, _)
InsertByIndex(sorted, x) ==
    IF sorted = <<>> THEN <<x>>
    ELSE IF sorted[Len(sorted)].index <= x.index
         THEN Append(sorted, x)
         ELSE Append(InsertByIndex(SubSeq(sorted, 1, Len(sorted) - 1), x),
                     sorted[Len(sorted)])

\* No sort: the list stays in completion order.
SortByIndex_Unsorted(s) == s

RECURSIVE SortByIndex(_)
SortByIndex(s) ==
    IF s = <<>> THEN <<>>
    ELSE InsertByIndex(SortByIndex(SubSeq(s, 1, Len(s) - 1)), s[Len(s)])

NoMosaic == [made |-> FALSE, cells |-> <<>>]

Cells(num_rows, num_cols) == (0..(num_rows - 1)) \X (0..(num_cols - 1))

\* stitch_mosaic: a black canvas, then every tile with an image is pasted at
\* its (row, col) slot, in list order.
RECURSIVE paste_tiles(_, _)
paste_tiles(canvas, tiles) ==
    IF tiles = <<>> THEN canvas
    ELSE LET t    == tiles[Len(tiles)]
             done == paste_tiles(canvas, SubSeq(tiles, 1, Len(tiles) - 1))
         IN IF t.image # NoImage /\ <<t.row, t.col>> \in DOMAIN done
            THEN [done EXCEPT ![<<t.row, t.col>>] = t.image]
            ELSE done

stitch_mosaic(tiles, num_rows, num_cols) ==
    [made |-> TRUE,
     cells |-> paste_tiles([c \in Cells(num_rows, num_cols) |-> NoImage], tiles)]

\* stitch_mosaic_streaming: the same composition, each tile read from its file.
stitch_mosaic_streaming(tile_files, num_rows, num_cols) ==
    [made |-> TRUE,
     cells |-> [c \in Cells(num_rows, num_cols) |->
                  IF c \in DOMAIN tile_files
                  THEN [tile |-> c[1] * num_cols + c[2], enc |-> "file"]
                  ELSE NoImage]]

\* sum(1 for t in tiles if t['image'] is not None)
CountImages(s) == Cardinality({n \in 1..Len(s) : s[n].image # NoImage})

\* sum(1 for r in results if r['success'])
CountSuccess(s) == Cardinality({n \in 1..Len(s) : s[n].success})

\* success_count <= total_tiles * 0.5
TooManyFailures_Inclusive(success_count, total_tiles) == 2 * success_count <= total_tiles

\* success_count < total_tiles * 0.5
TooManyFailures(success_count, total_tiles) == 2 * success_count < total_tiles

\* use_disk defaults to None: auto-detect by grid size.
SeqDiskThreshold  == 200
FastDiskThreshold == 150
AutoDisk(arg, total_tiles, threshold) ==
    IF arg = "None" THEN (IF total_tiles > threshold THEN "True" ELSE "False") ELSE arg

\* ------------------------------------------------------------------------
\* MPI: slices and serialization
\* ------------------------------------------------------------------------

\* start_idx without the min(rank, remainder) term.
mpi_start_idx_NoRemainder(rank, size, total_tiles) == rank * (total_tiles \div size)

mpi_start_idx(rank, size, total_tiles) ==
    rank * (total_tiles \div size) + Min(rank, total_tiles % size)

\* end_idx without the extra tile of the first `remainder` ranks.
mpi_end_idx_NoExtra(rank, size, total_tiles) ==
    mpi_start_idx(rank, size, total_tiles) + (total_tiles \div size)

mpi_end_idx(rank, size, total_tiles) ==
    mpi_start_idx(rank, size, total_tiles) + (total_tiles \div size)
        + (IF rank < total_tiles % size THEN 1 ELSE 0)

NoData == [tile |-> -1, enc |-> "none"]

\* As serialize, with 'data': None for every tile.
serialize_NoData(t) ==
    [row |-> t.row, col |-> t.col, index |-> t.index, data |-> NoData]

\* tile['image'].save(buf, format='JPEG', quality=95); buf.getvalue()
serialize(t) ==
    [row |-> t.row, col |-> t.col, index |-> t.index,
     data |-> IF t.image # NoImage THEN [tile |-> t.image.tile, enc |-> "jpeg95"]
              ELSE NoData]

\* Image.open(BytesIO(tile['data']))
reconstruct(t) ==
    [row |-> t.row, col |-> t.col, index |-> t.index,
     image |-> IF t.data # NoData THEN [tile |-> t.data.tile, enc |-> "reopened"]
               ELSE NoImage]

\* serialized = [...] for tile in local_results
serialize_all(s) == [n \in 1..Len(s) |-> serialize(s[n])]

\* all_tiles: for tile in rank_tiles
reconstruct_all(s) == [n \in 1..Len(s) |-> reconstruct(s[n])]

RECURSIVE ConcatRanks(_, _)
\* for rank_tiles in all_serialized: for tile in rank_tiles
ConcatRanks(all, n) ==
    IF n = 0 THEN <<>> ELSE ConcatRanks(all, n - 1) \o all[n - 1]

\* ------------------------------------------------------------------------
\* stitch_mosaic, pixel by pixel (maps_core.stitch_mosaic)
\* ------------------------------------------------------------------------

MaxStitchTiles == 4   \* StitchSpec: largest grid (num_rows * num_cols)
MaxTilePx == 1        \* StitchSpec: largest tile_size_px
MaxCrop == 1          \* StitchSpec: largest crop_bottom

\* scale: the image scale factor (1 or 2)
Scales == {1, 2}

\* 'image': None
NoPicture == [id |-> -1, width |-> 0, height |-> 0]

\* color=(0, 0, 0); any other pixel is <<image id, x in the image, y in the image>>
Black == <<-1, 0, 0>>

NoCanvas == [width |-> -1, height |-> -1, px |-> <<>>]

\* The image a fetcher returns for tile `id`: the provider's
\* (tile_size_px * scale)-square image after img.crop((0, 0, width, height - crop_bottom)).
CroppedPicture(id, tile_size_px, scale, crop_bottom) ==
    [id |-> id, width |-> tile_size_px * scale,
     height |-> tile_size_px * scale - crop_bottom]

actual_tile_size(tile_size_px, scale) == tile_size_px * scale

\* The height of a slot is that of an uncropped tile.
cropped_tile_height_NoCrop(tile_size_px, scale, crop_bottom) ==
    actual_tile_size(tile_size_px, scale)

cropped_tile_height(tile_size_px, scale, crop_bottom) ==
    actual_tile_size(tile_size_px, scale) - crop_bottom

cropped_tile_width(tile_size_px, scale) == actual_tile_size(tile_size_px, scale)

mosaic_width(num_cols, tile_size_px, scale) ==
    num_cols * cropped_tile_width(tile_size_px, scale)

mosaic_height(num_rows, tile_size_px, scale, crop_bottom) ==
    num_rows * cropped_tile_height(tile_size_px, scale, crop_bottom)

\* Image.new('RGB', (width, height), color=(0, 0, 0))
new_image(width, height) ==
    [width |-> width, height |-> height,
     px |-> [p \in (0..(width - 1)) \X (0..(height - 1)) |-> Black]]

\* mosaic.paste(im, (x, y)): the pixels of im replace those of the box
\* (x, y, x + im.width, y + im.height), clipped to the canvas.
paste(canvas, im, x, y) ==
    [canvas EXCEPT !.px =
        [p \in DOMAIN canvas.px |->
            IF /\ p[1] >= x /\ p[1] < x + im.width
               /\ p[2] >= y /\ p[2] < y + im.height
            THEN <<im.id, p[1] - x, p[2] - y>>
            ELSE canvas.px[p]]]

\* The horizontal offset is taken from the tile's row.
x_px_ByRow(tile, width) == tile.row * width

x_px(tile, width) == tile.col * width
y_px(tile, height) == tile.row * height

\* for tile in tiles, leaving the loop at the first tile without an image.
RECURSIVE paste_images_StopAtNone(_, _, _, _)
paste_images_StopAtNone(canvas, tiles, width, height) ==
    IF tiles = <<>> THEN canvas
    ELSE IF Head(tiles).image = NoPicture THEN canvas
    ELSE paste_images_StopAtNone(
             paste(canvas, Head(tiles).image, x_px(Head(tiles), width),
                   y_px(Head(tiles), height)),
             Tail(tiles), width, height)

\* for tile in tiles: if tile.get('image') is not None: mosaic.paste(...)
RECURSIVE paste_images(_, _, _, _)
paste_images(canvas, tiles, width, height) ==
    IF tiles = <<>> THEN canvas
    ELSE LET t    == tiles[Len(tiles)]
             done == paste_images(canvas, SubSeq(tiles, 1, Len(tiles) - 1), width, height)
         IN IF t.image # NoPicture
            THEN paste(done, t.image, x_px(t, width), y_px(t, height))
            ELSE done

\* The canvas is made just large enough for the tiles that have an image.
stitch_mosaic_image_Fitted(tiles, num_rows, num_cols, tile_size_px, scale, crop_bottom) ==
    LET with == {n \in 1..Len(tiles) : tiles[n].image # NoPicture}
        cols == IF with = {} THEN 0
                ELSE 1 + (CHOOSE c \in {tiles[n].col : n \in with} :
                             \A n \in with : tiles[n].col <= c)
        rows == IF with = {} THEN 0
                ELSE 1 + (CHOOSE r \in {tiles[n].row : n \in with} :
                             \A n \in with : tiles[n].row <= r)
    IN paste_images(new_image(mosaic_width(cols, tile_size_px, scale),
                              mosaic_height(rows, tile_size_px, scale, crop_bottom)),
                    tiles, cropped_tile_width(tile_size_px, scale),
                    cropped_tile_height(tile_size_px, scale, crop_bottom))

\* stitch_mosaic with its pixels: the canvas, then the paste loop.
stitch_mosaic_image(tiles, num_rows, num_cols, tile_size_px, scale, crop_bottom) ==
    paste_images(new_image(mosaic_width(num_cols, tile_size_px, scale),
                           mosaic_height(num_rows, tile_size_px, scale, crop_bottom)),
                 tiles, cropped_tile_width(tile_size_px, scale),
                 cropped_tile_height(tile_size_px, scale, crop_bottom))

\* ------------------------------------------------------------------------
\* State
\* ------------------------------------------------------------------------

VARIABLES
    fscript,    \* FetchSpec: the provider's responses, attempt by attempt
    fattempt,   \* FetchSpec: per fetcher, the number of HTTP requests issued
    fstatus,    \* FetchSpec: per fetcher, "running", "ok" or "fail"
    fsleeps,    \* FetchSpec: per fetcher, per request issued, whether a sleep followed
    part_total,     \* SliceSpec: total_tiles
    part_size,      \* SliceSpec: the communicator size
    part_slices,    \* SliceSpec: rank -> the [start_idx, end_idx) it computed
    grid_in,        \* GridSpec: num_rows, num_cols, tile_size_px and the centre pixel
    grid_centers,   \* GridSpec: the tile centres computed so far, in loop order
    geom,           \* StitchSpec: num_rows, num_cols, tile_size_px, scale, crop_bottom
    tiles_a,        \* StitchSpec: the tile list of the first stitch_mosaic call
    tiles_b,        \* StitchSpec: the tile list of the second call
    mosaic_a,       \* StitchSpec: what the first call returned
    mosaic_b,       \* StitchSpec: what the second call returned
    strategy,       \* "sequential", "fast", "async" or "mpi"
    force_sequential, \* EntrySpec: the argument force_sequential
    has_fast,       \* EntrySpec: whether `from maps_fast import ...` succeeds
    has_async,      \* EntrySpec: _HAS_ASYNC, whether aiohttp could be imported
    has_mpi,        \* HAS_MPI: whether mpi4py could be imported
    api_key,        \* whether a key is supplied or found in the environment
    use_disk,       \* "None", "True" or "False"
    output_path,    \* whether the caller supplied output_path
    max_workers,    \* max_workers (fast) / max_concurrent (async)
    size,           \* number of MPI ranks; 1 for the other strategies
    pc,             \* per rank: "start", "download", "gather", "done"
    tile_requests,  \* the planned requests
    metadata,       \* the metadata record
    tstate,         \* per tile index: "pending", "running", "ok", "fail"
    tattempt,       \* per tile index: the loop variable `attempt` of its running fetch
    pos,            \* per rank: position of the sequential loop in its slice
    permits,        \* free permits of the asyncio.Semaphore
    http_requests,  \* the HTTP requests the job has issued, all tiles and ranks together
    metered,        \* whether http_requests is kept (TermSpec) or left at 0
    results,        \* tiles / results / all_tiles: the collected result list
    tile_files,     \* disk mode: (row, col) -> tile file
    local_results,  \* MPI: per rank, local_results
    gathered,       \* MPI: per rank, the serialized list handed to gather
    entered,        \* MPI: the ranks that have called gather
    success_count,
    calls,          \* per request index: the number of fetcher calls made for it
    finished_futures, \* thread pool: completed futures not yet yielded, oldest first
    yield_any,      \* thread pool: futures as_completed found finished when called
    thread_of,      \* thread pool: work item -> the pool thread that took it
    local_session,  \* thread pool: FastSessionPool._local, key -> its session
    sessions,       \* thread pool: the requests.Session objects, creator and users
    temp_dir,       \* "None", "exists" (mkdtemp) or "removed" (rmtree)
    temp_files,     \* the files inside the temp directory
    output_file,    \* whether a file was written at output_path
    mosaic,         \* the stitched mosaic
    ret             \* per rank: "running", or what the function returned

fvars == <<fscript, fattempt, fstatus, fsleeps>>
pvars == <<part_total, part_size, part_slices>>
gvars == <<grid_in, grid_centers>>
svars == <<geom, tiles_a, tiles_b, mosaic_a, mosaic_b>>
inputs == <<strategy, force_sequential, has_fast, has_async, has_mpi, api_key, output_path,
            max_workers, size, metered>>
qvars == <<finished_futures, yield_any>>
tvars == <<thread_of, local_session, sessions>>
fsvars == <<temp_dir, temp_files, output_file>>
jvars == <<strategy, force_sequential, has_fast, has_async, has_mpi, api_key, use_disk, output_path, max_workers, size, pc,
           tile_requests, metadata, tstate, tattempt, pos, permits, results,
           tile_files, local_results, gathered, entered, success_count, calls,
           qvars, tvars, http_requests, metered, fsvars, mosaic, ret>>
vars == <<fvars, pvars, gvars, svars, jvars>>

Strategies == {"sequential", "fast", "async", "mpi"}

Ranks == 0..(size - 1)
total_tiles == Len(tile_requests)
Tiles == 0..(total_tiles - 1)
num_rows == metadata.num_rows
num_cols == metadata.num_cols

\* One more HTTP request sent: session.get / requests.get was called.
Issued(n) == IF metered THEN n + 1 ELSE n

\* The request with index k (list position k + 1).
Req(k) == tile_requests[k + 1]

\* The fetcher each strategy calls.
FetcherOf(s) ==
    CASE s = "sequential" -> "single"
      [] s = "mpi"        -> "single"
      [] s = "fast"       -> "aggressive"
      [] s = "async"      -> "async"

\* if not api_key
no_api_key_Never == FALSE

no_api_key == ~api_key

\* download_satellite_map_mpi hands the whole call to the sequential strategy
\* when mpi4py is missing, only when mpi4py is missing.
Fallback_OnlyNoMpi == strategy = "mpi" /\ ~has_mpi

\* download_satellite_map_mpi hands the whole call to
\* download_satellite_map_sequential: if not HAS_MPI, or if size == 1.
Fallback == strategy = "mpi" /\ (~has_mpi \/ size = 1)

\* The call runs the body of download_satellite_map_sequential.
RunsSequential == strategy = "sequential" \/ Fallback

\* The call runs the MPI body of download_satellite_map_mpi.
RunsMpi == strategy = "mpi" /\ ~Fallback

\* Every rank starts its slice at the head of the list.
SliceStart_Zero(r) == 0

\* The part of the request list rank r loops over.
SliceStart(r) == IF RunsMpi THEN mpi_start_idx(r, size, total_tiles) ELSE 0
SliceEnd(r)   == IF RunsMpi THEN mpi_end_idx(r, size, total_tiles) ELSE total_tiles

NotReturned == [mosaic |-> "", metadata |-> ""]
ReturnNone  == [mosaic |-> "None", metadata |-> "None"]

\* The call did not return: an exception left the function. `cause` names it:
\* "OSError" for a failed write to disk, "fetch" for an exception that left a
\* fetcher, "TypeError" for a call with a keyword the callee does not have.
Raised(cause) == [mosaic |-> "raise", metadata |-> cause]

\* The mosaic file a disk-mode run without output_path writes into temp_dir.
MosaicFile == <<-1, -1>>

\* ------------------------------------------------------------------------
\* FetchSpec: the three fetchers on one response sequence
\* ------------------------------------------------------------------------

ScriptLen == AggressiveMaxRetries

Scripts == [1..ScriptLen -> Responses]

PartIdle ==
    /\ part_total = 0 /\ part_size = 0 /\ part_slices = <<>>

GridIdle ==
    /\ grid_in = [num_rows |-> 0, num_cols |-> 0, tile_size_px |-> 0, cx |-> 0, cy |-> 0]
    /\ grid_centers = <<>>

StitchIdle ==
    /\ geom = [num_rows |-> 0, num_cols |-> 0, tile_size_px |-> 0, scale |-> 0,
               crop_bottom |-> 0]
    /\ tiles_a = <<>> /\ tiles_b = <<>>
    /\ mosaic_a = NoCanvas /\ mosaic_b = NoCanvas

JobIdle ==
    /\ strategy = "sequential" /\ has_mpi = FALSE /\ api_key = FALSE /\ use_disk = "None"
    /\ metered = FALSE
    /\ force_sequential = FALSE /\ has_fast = TRUE /\ has_async = FALSE
    /\ output_path = FALSE /\ max_workers = 1 /\ size = 1
    /\ pc = [r \in {0} |-> "done"]
    /\ tile_requests = <<>> /\ metadata = [num_rows |-> 0, num_cols |-> 0, total_tiles |-> 0]
    /\ tstate = <<>> /\ tattempt = <<>> /\ pos = [r \in {0} |-> 0] /\ permits = 0
    /\ results = <<>> /\ tile_files = NoFiles /\ local_results = [r \in {0} |-> <<>>]
    /\ gathered = [r \in {0} |-> <<>>] /\ entered = {}
    /\ success_count = 0 /\ mosaic = NoMosaic /\ ret = [r \in {0} |-> NotReturned]
    /\ calls = <<>> /\ finished_futures = <<>> /\ yield_any = {}
    /\ thread_of = NoThreads /\ local_session = NoSessions /\ sessions = <<>>
    /\ http_requests = 0
    /\ temp_dir = "None" /\ temp_files = {} /\ output_file = FALSE

FetchInit ==
    /\ fscript \in Scripts
    /\ fattempt = [f \in Fetchers |-> 0]
    /\ fstatus = [f \in Fetchers |-> "running"]
    /\ fsleeps = [f \in Fetchers |-> <<>>]
    /\ PartIdle
    /\ GridIdle
    /\ StitchIdle
    /\ JobIdle

\* Fetcher f issues its next HTTP request, receives the provider's response
\* for that attempt and runs the rest of the loop iteration.
FetchAttempt(f) ==
    /\ fstatus[f] = "running"
    /\ LET r   == fscript[fattempt[f] + 1]
           res == Attempt(f, fattempt[f], r)
       IN /\ fattempt' = [fattempt EXCEPT ![f] = @ + 1]
          /\ fsleeps' = [fsleeps EXCEPT ![f] = Append(@, res.sleep)]
          /\ fstatus' = [fstatus EXCEPT ![f] = AfterAttempt(f, fattempt[f], res.next)]
    /\ UNCHANGED <<fscript, pvars, gvars, svars, jvars>>

FetchNext == \E f \in Fetchers : FetchAttempt(f)

FetchSpec == FetchInit /\ [][FetchNext]_vars

\* ------------------------------------------------------------------------
\* Spec: one download job
\* ------------------------------------------------------------------------

FetchIdle ==
    /\ fscript = <<>>
    /\ fattempt = [f \in Fetchers |-> 0]
    /\ fstatus = [f \in Fetchers |-> "idle"]
    /\ fsleeps = [f \in Fetchers |-> <<>>]

\* The arguments of one download_satellite_map_* call and the state before
\* its first statement; `meter` says whether the job's HTTP requests are
\* counted.
JobInit(meter) ==
    /\ FetchIdle
    /\ PartIdle
    /\ GridIdle
    /\ StitchIdle
    /\ metered = meter
    /\ strategy \in Strategies
    /\ force_sequential = FALSE /\ has_fast = TRUE /\ has_async = FALSE
    /\ has_mpi \in (IF strategy = "mpi" THEN BOOLEAN ELSE {FALSE})
    /\ api_key \in BOOLEAN
    /\ use_disk \in (CASE strategy \in {"sequential", "fast"} -> {"None", "True", "False"}
                       [] strategy = "mpi" -> {"None"}
                       [] OTHER -> {"False"})
    /\ output_path \in (IF strategy \in {"sequential", "fast"} THEN BOOLEAN ELSE {FALSE})
    /\ max_workers \in (IF strategy \in {"fast", "async"} THEN 1..MaxWorkers ELSE {1})
    /\ size \in (IF strategy = "mpi" /\ has_mpi THEN 1..MaxRanks ELSE {1})
    /\ pc = [r \in 0..(size - 1) |-> "start"]
    /\ tile_requests = <<>>
    /\ metadata = [num_rows |-> 0, num_cols |-> 0, total_tiles |-> 0]
    /\ tstate = <<>>
    /\ tattempt = <<>>
    /\ pos = [r \in 0..(size - 1) |-> 0]
    /\ permits = 0
    /\ results = <<>>
    /\ tile_files = NoFiles
    /\ local_results = [r \in 0..(size - 1) |-> <<>>]
    /\ gathered = [r \in 0..(size - 1) |-> <<>>]
    /\ entered = {}
    /\ success_count = 0
    /\ calls = <<>>
    /\ finished_futures = <<>>
    /\ yield_any = {}
    /\ thread_of = NoThreads
    /\ local_session = NoSessions
    /\ sessions = <<>>
    /\ http_requests = 0
    /\ temp_dir = "None"
    /\ temp_files = {}
    /\ output_file = FALSE
    /\ mosaic = NoMosaic
    /\ ret = [r \in 0..(size - 1) |-> NotReturned]

Init == JobInit(FALSE)

\* The start of every download_satellite_map_*: the API key check, then
\* calculate_tile_grid, the use_disk auto-detection with mkdtemp in disk
\* mode, and (async) the semaphore. Under MPI every rank runs it with the
\* same arguments; without mpi4py or with one rank it is the start of
\* download_satellite_map_sequential.
Begin(r) ==
    /\ pc[r] = "start"
    /\ IF no_api_key
       THEN /\ pc' = [pc EXCEPT ![r] = "done"]
            /\ ret' = [ret EXCEPT ![r] = ReturnNone]
            /\ UNCHANGED <<tile_requests, metadata, tstate, tattempt, calls, use_disk,
                           temp_dir, permits>>
       ELSE /\ \E lat_meters \in -1..MaxExtent, lon_meters \in -1..MaxExtent,
                  meters_per_tile \in 1..2 :
                LET g == calculate_tile_grid(lat_meters, lon_meters, meters_per_tile)
                    n == Len(g.tile_requests)
                    d == CASE RunsSequential -> AutoDisk(use_disk, n, SeqDiskThreshold)
                           [] strategy = "fast" -> AutoDisk(use_disk, n, FastDiskThreshold)
                           [] OTHER -> use_disk
                IN /\ n <= (CASE RunsSequential -> MaxGrid
                               [] RunsMpi -> MaxTiles
                               [] OTHER -> MaxPoolTiles)
                   /\ tile_requests = <<>> \/ tile_requests = g.tile_requests
                   /\ tile_requests' = g.tile_requests
                   /\ metadata' = IF tile_requests = <<>> THEN g.metadata ELSE metadata
                   /\ tstate' = IF tile_requests = <<>>
                                THEN [k \in 0..(n - 1) |-> "pending"] ELSE tstate
                   /\ tattempt' = IF tile_requests = <<>>
                                  THEN [k \in 0..(n - 1) |-> 0] ELSE tattempt
                   /\ calls' = IF tile_requests = <<>>
                               THEN [k \in 0..(n - 1) |-> 0] ELSE calls
                   /\ use_disk' = d
                   /\ temp_dir' = IF d = "True" THEN "exists" ELSE temp_dir
            /\ permits' = IF strategy = "async" THEN max_workers ELSE permits
            /\ pc' = [pc EXCEPT ![r] = "download"]
            /\ UNCHANGED ret
    /\ UNCHANGED <<fvars, pvars, gvars, svars, tvars, http_requests, inputs, pos, results, tile_files, local_results, gathered,
                   entered, success_count, qvars, temp_files, output_file, mosaic>>

\* A call of a fetcher for tile k is counted under the request's index.
CallStarted(k) == [calls EXCEPT ![Req(k).index] = @ + 1]

\* The sequential loops call download_single_tile once per list element: the
\* call begins with the iteration whose loop variable `attempt` is 0.
CallsAfter(k) == IF tattempt[k] = 0 THEN CallStarted(k) ELSE calls

\* One iteration of fetcher f's retry loop for tile k under response resp:
\* the tile's new state.
TileAfter(f, k, resp) == AfterAttempt(f, tattempt[k], Attempt(f, tattempt[k], resp).next)

\* The loop variable `attempt` of tile k's fetch after an iteration that left
\* the fetch in state st; it is a local of the fetcher and is gone on return.
AttemptAfter(k, st) ==
    [tattempt EXCEPT ![k] = IF st = "running" THEN @ + 1 ELSE 0]

\* The image download_single_tile returns for tile k in state st.
ImageOf(k, st) == IF st = "ok" THEN DecodedImage(k) ELSE NoImage

\* As SequentialMemoryTile, with the loop moving on to the next request after
\* the first attempt, whether or not the fetch has returned.
SequentialMemoryTile_NoWait ==
    /\ RunsSequential /\ pc[0] = "download" /\ use_disk = "False"
    /\ pos[0] < total_tiles
    /\ \E resp \in Responses :
         LET k  == pos[0]
             st == TileAfter("single", k, resp)
         IN /\ tattempt' = AttemptAfter(k, st)
            /\ http_requests' = Issued(http_requests)
            /\ tstate' = [tstate EXCEPT ![k] = st]
            /\ calls' = CallsAfter(k)
            /\ pos' = [pos EXCEPT ![0] = @ + 1]
            /\ results' = Append(results, [row |-> Req(k).row, col |-> Req(k).col,
                                           image |-> ImageOf(k, st)])
    /\ UNCHANGED <<fvars, pvars, gvars, svars, tvars, inputs, use_disk, pc, tile_requests, metadata, permits,
                   tile_files, local_results, gathered, entered, success_count,
                   qvars, fsvars, mosaic, ret>>

\* Sequential strategy, in-memory loop: one HTTP attempt for the current tile;
\* when download_single_tile returns, the tile is appended to `tiles`; an
\* exception that leaves download_single_tile leaves the function.
SequentialMemoryTile ==
    /\ RunsSequential /\ pc[0] = "download" /\ use_disk = "False"
    /\ pos[0] < total_tiles
    /\ \E resp \in Responses :
         LET k  == pos[0]
             st == TileAfter("single", k, resp)
         IN /\ tattempt' = AttemptAfter(k, st)
            /\ http_requests' = Issued(http_requests)
            /\ tstate' = [tstate EXCEPT ![k] = st]
            /\ calls' = CallsAfter(k)
            /\ CASE st = "running" -> UNCHANGED <<pos, results, pc, ret>>
                 [] st = "raised" ->
                      /\ pc' = [pc EXCEPT ![0] = "done"]
                      /\ ret' = [ret EXCEPT ![0] = Raised("fetch")]
                      /\ UNCHANGED <<pos, results>>
                 [] OTHER ->
                      /\ pos' = [pos EXCEPT ![0] = @ + 1]
                      /\ results' = Append(results, [row |-> Req(k).row, col |-> Req(k).col,
                                                     image |-> ImageOf(k, st)])
                      /\ UNCHANGED <<pc, ret>>
    /\ UNCHANGED <<fvars, pvars, gvars, svars, tvars, inputs, use_disk, tile_requests, metadata, permits,
                   tile_files, local_results, gathered, entered, success_count,
                   qvars, fsvars, mosaic>>

\* As finally_rmtree, written as the last statement of the try body: it is
\* skipped when an exception leaves the body.
finally_rmtree_NotOnRaise(dir, outcome) ==
    IF dir = "exists" /\ outcome.mosaic # "raise" THEN "removed" ELSE dir

\* finally: if temp_dir and os.path.exists(temp_dir): shutil.rmtree(temp_dir).
\* The block runs however the try body is left (`outcome`); the directory is
\* taken to be removable.
finally_rmtree(dir, outcome) == IF dir = "exists" THEN "removed" ELSE dir

\* The files of the temp directory once the directory is in state dir.
FilesIn(dir, files) == IF dir = "exists" THEN files ELSE {}

\* Sequential strategy, disk loop: a tile that was fetched is saved and
\* entered into tile_files; a failed tile leaves no entry. img.save is called
\* by the loop itself: when the write fails (`saved` false) the exception
\* leaves the function through the finally block.
SequentialDiskTile ==
    /\ RunsSequential /\ pc[0] = "download" /\ use_disk = "True"
    /\ pos[0] < total_tiles
    /\ \E resp \in Responses, saved \in BOOLEAN :
         LET k   == pos[0]
             st  == TileAfter("single", k, resp)
             key == <<Req(k).row, Req(k).col>>
             out == CASE st = "raised"       -> Raised("fetch")
                      [] st = "ok" /\ ~saved -> Raised("OSError")
                      [] OTHER               -> NotReturned
             dir == finally_rmtree(temp_dir, out)
         IN /\ st # "ok" => saved
            /\ tattempt' = AttemptAfter(k, st)
            /\ http_requests' = Issued(http_requests)
            /\ tstate' = [tstate EXCEPT ![k] = st]
            /\ calls' = CallsAfter(k)
            /\ IF out = NotReturned
               THEN /\ pos' = IF st = "running" THEN pos ELSE [pos EXCEPT ![0] = @ + 1]
                    /\ tile_files' = IF st = "ok"
                                     THEN [c \in DOMAIN tile_files \cup {key} |->
                                             IF c = key THEN TilePath(key[1], key[2])
                                             ELSE tile_files[c]]
                                     ELSE tile_files
                    /\ temp_files' = IF st = "ok"
                                     THEN temp_files \cup {TilePath(key[1], key[2])}
                                     ELSE temp_files
                    /\ UNCHANGED <<pc, ret, temp_dir>>
               ELSE /\ pc' = [pc EXCEPT ![0] = "done"]
                    /\ ret' = [ret EXCEPT ![0] = out]
                    /\ temp_dir' = dir
                    /\ temp_files' = FilesIn(dir, temp_files)
                    /\ UNCHANGED <<pos, tile_files>>
    /\ UNCHANGED <<fvars, pvars, gvars, svars, tvars, inputs, use_disk, tile_requests, metadata, permits,
                   results, local_results, gathered, entered, success_count,
                   qvars, output_file, mosaic>>

\* The statistics a strategy writes into metadata before it returns it: the
\* keys are the strategy's own; a time or a rate is a value of the clock
\* and stands for itself.
RunStatistics(method, count) ==
    CASE method = "sequential" ->
           [download_method |-> method, tiles_success |-> count,
            tiles_total |-> total_tiles, time |-> "elapsed", use_disk |-> use_disk]
      [] method = "mpi" ->
           [download_method |-> method, mpi_ranks |-> size, tiles_success |-> count,
            tiles_total |-> total_tiles]
      [] method = "fast_parallel" ->
           [download_method |-> method, max_workers |-> max_workers,
            tiles_success |-> count, tiles_total |-> total_tiles,
            download_time |-> "download_time", total_time |-> "elapsed",
            throughput |-> "success_count / download_time", use_disk |-> use_disk,
            url_signing |-> "secret is not None"]
      [] method = "async" ->
           [download_method |-> method, max_concurrent |-> max_workers,
            tiles_success |-> count, tiles_total |-> total_tiles,
            download_time |-> "elapsed", throughput |-> "total_tiles / elapsed"]

\* metadata[...] = ... before the return: the record of calculate_tile_grid
\* with the strategy's statistics written into it.
FinalMetadata(method, count) == RunStatistics(method, count) @@ metadata

\* As output_written, with the mosaic saved before the threshold is tested.
output_written_BeforeThreshold(out, partial) ==
    IF out.mosaic = "raise" THEN partial ELSE output_path

\* Whether the end of a call leaves a file at output_path. The statements that
\* write there (stitch_mosaic_streaming with mosaic_path = output_path, and
\* mosaic.save(output_path)) come after the threshold's `return None, None`;
\* a write that raised may have left a part of the file.
output_written(out, partial) ==
    CASE out = ReturnNone       -> FALSE
      [] out.mosaic = "raise"   -> partial
      [] OTHER                  -> output_path

\* Sequential strategy after the loop: count, threshold, stitch, return. The
\* mosaic is written to disk by stitch_mosaic_streaming (disk mode: to
\* output_path, or into temp_dir) or by mosaic.save (memory mode with an
\* output_path); when the write fails (`written` false) the exception leaves
\* the function, and a part of the file may be left behind (`partial`).
\* The finally block ends every one of these paths.
SequentialFinish ==
    /\ RunsSequential /\ pc[0] = "download"
    /\ pos[0] = total_tiles
    /\ \E written \in BOOLEAN, partial \in BOOLEAN :
         LET count  == IF use_disk = "True" THEN Cardinality(DOMAIN tile_files)
                       ELSE CountImages(results)
             writes == use_disk = "True" \/ output_path
             out    == CASE TooManyFailures(count, total_tiles) -> ReturnNone
                         [] writes /\ ~written -> Raised("OSError")
                         [] OTHER -> [mosaic |-> IF use_disk = "True" /\ output_path
                                                 THEN "None" ELSE "image",
                                      metadata |-> "dict"]
             dir    == finally_rmtree(temp_dir, out)
         IN /\ (TooManyFailures(count, total_tiles) \/ ~writes) => written
            /\ (written \/ ~output_path) => ~partial
            /\ success_count' = count
            /\ ret' = [ret EXCEPT ![0] = out]
            /\ output_file' = output_written(out, partial)
            /\ CASE out = ReturnNone ->
                      UNCHANGED <<mosaic, metadata>>
                 [] out.mosaic = "raise" ->
                      /\ mosaic' = IF use_disk = "True" THEN mosaic
                                   ELSE stitch_mosaic(results, num_rows, num_cols)
                      /\ UNCHANGED metadata
                 [] OTHER ->
                      /\ mosaic' = IF use_disk = "True"
                                   THEN stitch_mosaic_streaming(tile_files, num_rows, num_cols)
                                   ELSE stitch_mosaic(results, num_rows, num_cols)
                      /\ metadata' = FinalMetadata("sequential", count)
            /\ temp_dir' = dir
            /\ temp_files' = FilesIn(dir, IF out.metadata = "dict" /\ use_disk = "True"
                                             /\ ~output_path
                                          THEN temp_files \cup {MosaicFile}
                                          ELSE temp_files)
    /\ pc' = [pc EXCEPT ![0] = "done"]
    /\ UNCHANGED <<fvars, pvars, gvars, svars, tvars, http_requests, inputs, use_disk, tile_requests, tstate, tattempt, pos,
                   permits, results, tile_files, local_results, gathered, entered,
                   calls, qvars>>

\* ------------------------------------------------------------------------
\* Thread-pool strategy (maps_fast.py)
\* ------------------------------------------------------------------------

Pending == {k \in Tiles : tstate[k] = "pending"}
Running == {k \in Tiles : tstate[k] = "running"}
Returned == {k \in Tiles : tstate[k] \in {"ok", "fail"}}
Collected == {results[n].index : n \in 1..Len(results)}

\* s without its element x.
RECURSIVE Without(_, _)
Without(q, x) ==
    IF q = <<>> THEN <<>>
    ELSE IF Head(q) = x THEN Tail(q)
    ELSE <<Head(q)>> \o Without(Tail(q), x)

\* The worker threads of ThreadPoolExecutor(max_workers=max_workers). The
\* executor starts them one after the other as items are submitted, so the
\* threads that can take an item are those already started whose last worker
\* call has returned and, below max_workers, the next one to be started.
Threads == 1..max_workers
Spawned == {thread_of[k] : k \in DOMAIN thread_of}
FreeThreads ==
    {t \in Threads :
        /\ t \in Spawned \/ t = Cardinality(Spawned) + 1
        /\ \A k \in DOMAIN thread_of : thread_of[k] = t => tstate[k] # "running"}

\* One attribute on the pool object for every thread.
LocalKey_Global(t) == 0

\* self._local = threading.local(): thread t reads and writes its own
\* attribute `session`.
LocalKey(t) == t

\* FastSessionPool.get() called by thread t: the pool's store and the
\* session objects afterwards. A session is created when the caller's
\* `_local` has none.
FastSessionPool_get(t) ==
    IF LocalKey(t) \in DOMAIN local_session
    THEN [local |-> local_session, made |-> sessions]
    ELSE [local |-> (LocalKey(t) :> (Len(sessions) + 1)) @@ local_session,
          made  |-> Append(sessions, [creator |-> t, users |-> {}])]

\* session.get(url, timeout=10) by the thread that runs work item k, on the
\* session _pool.get() returned to it.
session_get(k) ==
    [sessions EXCEPT ![local_session[LocalKey(thread_of[k])]].users =
                        @ \cup {thread_of[k]}]

\* executor.submit(worker, item) for the next work item: the main thread
\* fills the executor's queue in list order.
PoolSubmit ==
    /\ strategy = "fast" /\ pc[0] = "download"
    /\ pos[0] < total_tiles
    /\ pos' = [pos EXCEPT ![0] = @ + 1]
    /\ UNCHANGED <<fvars, pvars, gvars, svars, tvars, http_requests, inputs, use_disk, pc, tile_requests, metadata, tstate,
                   tattempt, permits, results, tile_files, local_results, gathered,
                   entered, success_count, calls, qvars, fsvars, mosaic, ret>>

\* as_completed(futures) is called once every item is submitted: the futures
\* that are finished by then are set aside and yielded first, from a set.
PoolAsCompleted ==
    /\ strategy = "fast" /\ pc[0] = "download"
    /\ pos[0] = total_tiles
    /\ yield_any' = {finished_futures[n] : n \in 1..Len(finished_futures)}
    /\ pc' = [pc EXCEPT ![0] = "collect"]
    /\ UNCHANGED <<fvars, pvars, gvars, svars, tvars, http_requests, inputs, use_disk, tile_requests, metadata, tstate,
                   tattempt, pos, permits, results, tile_files, local_results, gathered,
                   entered, success_count, calls, finished_futures, fsvars, mosaic, ret>>

\* A work item is started whether or not a pool thread is free.
PoolStart_Unbounded ==
    /\ strategy = "fast" /\ pc[0] \in {"download", "collect"}
    /\ \E p \in Pending : p < pos[0]
    /\ \E t \in Threads :
         LET k == CHOOSE p \in Pending : \A q \in Pending : p <= q
             got == FastSessionPool_get(t)
         IN /\ tstate' = [tstate EXCEPT ![k] = "running"]
            /\ calls' = CallStarted(k)
            /\ thread_of' = (k :> t) @@ thread_of
            /\ local_session' = got.local
            /\ sessions' = got.made
    /\ UNCHANGED <<fvars, pvars, gvars, svars, http_requests, inputs, use_disk, pc, tile_requests, metadata, tattempt, pos,
                   permits, results, tile_files, local_results, gathered, entered,
                   success_count, qvars, fsvars, mosaic, ret>>

\* A free pool thread takes the next work item off the executor's queue
\* (FIFO) and calls the worker function on it; download_tile_aggressive
\* begins with session = _pool.get().
PoolStart ==
    /\ strategy = "fast" /\ pc[0] \in {"download", "collect"}
    /\ \E p \in Pending : p < pos[0]
    /\ Cardinality(Running) < max_workers
    /\ \E t \in FreeThreads :
         LET k == CHOOSE p \in Pending : \A q \in Pending : p <= q
             got == FastSessionPool_get(t)
         IN /\ tstate' = [tstate EXCEPT ![k] = "running"]
            /\ calls' = CallStarted(k)
            /\ thread_of' = (k :> t) @@ thread_of
            /\ local_session' = got.local
            /\ sessions' = got.made
    /\ UNCHANGED <<fvars, pvars, gvars, svars, http_requests, inputs, use_disk, pc, tile_requests, metadata, tattempt, pos,
                   permits, results, tile_files, local_results, gathered, entered,
                   success_count, qvars, fsvars, mosaic, ret>>

\* One iteration of download_tile_aggressive inside worker_memory / worker_disk;
\* in disk mode the fetcher itself saves the image it decoded into temp_dir.
\* When the worker function returns, its future is finished.
PoolAttempt(k) ==
    /\ strategy = "fast" /\ pc[0] \in {"download", "collect"}
    /\ tstate[k] = "running"
    /\ \E resp \in Responses :
         LET st == TileAfter("aggressive", k, resp)
         IN /\ tattempt' = AttemptAfter(k, st)
            /\ http_requests' = Issued(http_requests)
            /\ tstate' = [tstate EXCEPT ![k] = st]
            /\ finished_futures' = IF st = "running" THEN finished_futures
                                   ELSE Append(finished_futures, k)
            /\ temp_files' = IF use_disk = "True" /\ st = "ok"
                             THEN temp_files \cup {TilePath(Req(k).row, Req(k).col)}
                             ELSE temp_files
    /\ sessions' = session_get(k)
    /\ UNCHANGED <<thread_of, local_session>>
    /\ UNCHANGED <<fvars, pvars, gvars, svars, inputs, use_disk, pc, tile_requests, metadata, pos,
                   permits, results, tile_files, local_results, gathered, entered,
                   success_count, calls, yield_any, temp_dir, output_file, mosaic, ret>>

\* The dict worker_memory returns for tile k.
worker_memory(k) ==
    [row |-> Req(k).row, col |-> Req(k).col, index |-> Req(k).index,
     image |-> ImageOf(k, tstate[k]), success |-> tstate[k] = "ok"]

\* As worker_disk, with 'file': output_path whatever the fetcher returned.
worker_disk_FileAlways(k) ==
    [row |-> Req(k).row, col |-> Req(k).col, index |-> Req(k).index,
     file |-> TilePath(Req(k).row, Req(k).col),
     success |-> tstate[k] = "ok"]

\* The dict worker_disk returns for tile k.
worker_disk(k) ==
    [row |-> Req(k).row, col |-> Req(k).col, index |-> Req(k).index,
     file |-> IF tstate[k] = "ok" THEN TilePath(Req(k).row, Req(k).col) ELSE NoFile,
     success |-> tstate[k] = "ok"]

\* for future in as_completed(futures): results.append(future.result()).
\* The futures set aside at the call come first, in the order of a set; the
\* others follow in the order they finish. future.result() raises again what
\* the worker function raised, and the exception leaves the function through
\* the finally block.
PoolCollect(k) ==
    /\ strategy = "fast" /\ pc[0] = "collect"
    /\ \/ k \in yield_any
       \/ yield_any = {} /\ finished_futures # <<>> /\ k = Head(finished_futures)
    /\ yield_any' = yield_any \ {k}
    /\ finished_futures' = Without(finished_futures, k)
    /\ IF tstate[k] = "raised"
       THEN LET dir == finally_rmtree(temp_dir, Raised("fetch"))
            IN /\ pc' = [pc EXCEPT ![0] = "done"]
               /\ ret' = [ret EXCEPT ![0] = Raised("fetch")]
               /\ temp_dir' = dir
               /\ temp_files' = FilesIn(dir, temp_files)
               /\ UNCHANGED results
       ELSE /\ results' = Append(results, IF use_disk = "True" THEN worker_disk(k)
                                          ELSE worker_memory(k))
            /\ UNCHANGED <<pc, ret, temp_dir, temp_files>>
    /\ UNCHANGED <<fvars, pvars, gvars, svars, tvars, http_requests, inputs, use_disk, tile_requests, metadata, tstate,
                   tattempt, pos, permits, tile_files, local_results, gathered, entered,
                   success_count, calls, output_file, mosaic>>

\* As as_completed_exhausted, with the collection loop also left as soon as
\* half of the tiles are known to have failed.
as_completed_exhausted_OrHopeless ==
    \/ Len(results) = total_tiles
    \/ 2 * Cardinality({n \in 1..Len(results) : ~results[n].success}) >= total_tiles

\* The loop over as_completed(...) has ended: it yields every future (task)
\* once, so it ends when each has been collected.
as_completed_exhausted == Len(results) = total_tiles

\* [{'row', 'col', 'image'} for r in results]
tiles_for_stitch(rs) ==
    [n \in 1..Len(rs) |-> [row |-> rs[n].row, col |-> rs[n].col, image |-> rs[n].image]]

\* {(r['row'], r['col']): r['file'] for r in results if r['file']}
files_of(rs) ==
    LET with == {n \in 1..Len(rs) : rs[n].file # NoFile}
    IN [c \in {<<rs[n].row, rs[n].col>> : n \in with} |->
          LET n == CHOOSE m \in with :
                     /\ <<rs[m].row, rs[m].col>> = c
                     /\ \A l \in with : <<rs[l].row, rs[l].col>> = c => l <= m
          IN rs[n].file]

\* download_satellite_map_fast after the executor block: sort, count, stitch,
\* return. There is no threshold check here. The mosaic is written to disk as
\* in the sequential strategy: a failed write (`written` false) leaves the
\* function as an exception, perhaps with a part of the file (`partial`);
\* the finally block ends both paths.
FastFinish ==
    /\ strategy = "fast" /\ pc[0] = "collect"
    /\ as_completed_exhausted
    /\ \E written \in BOOLEAN, partial \in BOOLEAN :
         LET sorted == SortByIndex(results)
             count  == CountSuccess(sorted)
             writes == use_disk = "True" \/ output_path
             out    == IF writes /\ ~written
                       THEN Raised("OSError")
                       ELSE [mosaic |-> IF use_disk = "True" /\ output_path
                                        THEN "None" ELSE "image",
                             metadata |-> "dict"]
             dir    == finally_rmtree(temp_dir, out)
         IN /\ ~writes => written
            /\ (written \/ ~output_path) => ~partial
            /\ results' = sorted
            /\ success_count' = count
            /\ tile_files' = IF use_disk = "True" THEN files_of(sorted) ELSE tile_files
            /\ ret' = [ret EXCEPT ![0] = out]
            /\ output_file' = output_written(out, partial)
            /\ IF out.mosaic = "raise"
               THEN /\ mosaic' = IF use_disk = "True" THEN mosaic
                                 ELSE stitch_mosaic(tiles_for_stitch(sorted), num_rows, num_cols)
                    /\ UNCHANGED metadata
               ELSE /\ mosaic' = IF use_disk = "True"
                                 THEN stitch_mosaic_streaming(files_of(sorted), num_rows, num_cols)
                                 ELSE stitch_mosaic(tiles_for_stitch(sorted), num_rows, num_cols)
                    /\ metadata' = FinalMetadata("fast_parallel", count)
            /\ temp_dir' = dir
            /\ temp_files' = FilesIn(dir, IF out.metadata = "dict" /\ use_disk = "True"
                                             /\ ~output_path
                                          THEN temp_files \cup {MosaicFile}
                                          ELSE temp_files)
    /\ pc' = [pc EXCEPT ![0] = "done"]
    /\ UNCHANGED <<fvars, pvars, gvars, svars, tvars, http_requests, inputs, use_disk, tile_requests, tstate, tattempt, pos,
                   permits, local_results, gathered, entered, calls, qvars>>

\* ------------------------------------------------------------------------
\* Async strategy (maps_async.py)
\* ------------------------------------------------------------------------

\* A coroutine enters its fetch section without taking a permit.
AsyncAcquire_NoSemaphore(k) ==
    /\ strategy = "async" /\ pc[0] = "download"
    /\ tstate[k] = "pending"
    /\ permits' = permits
    /\ tstate' = [tstate EXCEPT ![k] = "running"]
    /\ calls' = CallStarted(k)
    /\ UNCHANGED <<fvars, pvars, gvars, svars, tvars, http_requests, inputs, use_disk, pc, tile_requests, metadata, tattempt, pos,
                   results, tile_files, local_results, gathered, entered,
                   success_count, qvars, fsvars, mosaic, ret>>

\* async with semaphore: a task enters its fetch section when a permit is free.
AsyncAcquire(k) ==
    /\ strategy = "async" /\ pc[0] = "download"
    /\ tstate[k] = "pending"
    /\ permits > 0
    /\ permits' = permits - 1
    /\ tstate' = [tstate EXCEPT ![k] = "running"]
    /\ calls' = CallStarted(k)
    /\ UNCHANGED <<fvars, pvars, gvars, svars, tvars, http_requests, inputs, use_disk, pc, tile_requests, metadata, tattempt, pos,
                   results, tile_files, local_results, gathered, entered,
                   success_count, qvars, fsvars, mosaic, ret>>

\* The permit is given back only by the `return` of a fetched image.
async_with_exit_OnSuccessOnly(free, st) == IF st = "ok" THEN free + 1 ELSE free

\* The end of an iteration inside `async with semaphore:`: the block is left,
\* and the permit released, by the return of an image, by `break`, by the end
\* of the loop and by an exception; `continue` and the sleeps stay inside it.
async_with_exit(free, st) == IF st = "running" THEN free ELSE free + 1

\* One iteration of download_tile_async's loop; leaving the loop leaves the
\* `async with` block and releases the permit.
AsyncAttempt(k) ==
    /\ strategy = "async" /\ pc[0] = "download"
    /\ tstate[k] = "running"
    /\ \E resp \in Responses :
         LET st == TileAfter("async", k, resp)
         IN /\ tattempt' = AttemptAfter(k, st)
            /\ http_requests' = Issued(http_requests)
            /\ tstate' = [tstate EXCEPT ![k] = st]
            /\ permits' = async_with_exit(permits, st)
    /\ UNCHANGED <<fvars, pvars, gvars, svars, tvars, inputs, use_disk, pc, tile_requests, metadata, pos,
                   results, tile_files, local_results, gathered, entered,
                   success_count, calls, qvars, fsvars, mosaic, ret>>

\* The dict download_tile_async returns for tile k.
async_result(k) ==
    [row |-> Req(k).row, col |-> Req(k).col, index |-> Req(k).index,
     image |-> ImageOf(k, tstate[k]), success |-> tstate[k] = "ok"]

\* for coro in asyncio.as_completed(tasks): results.append(await coro).
\* Awaiting a task that ended with an exception raises it: it leaves
\* asyncio.run and download_satellite_map_async.
AsyncCollect(k) ==
    /\ strategy = "async" /\ pc[0] = "download"
    /\ k \notin Collected
    /\ IF tstate[k] = "raised"
       THEN /\ pc' = [pc EXCEPT ![0] = "done"]
            /\ ret' = [ret EXCEPT ![0] = Raised("fetch")]
            /\ UNCHANGED results
       ELSE /\ k \in Returned
            /\ results' = Append(results, async_result(k))
            /\ UNCHANGED <<pc, ret>>
    /\ UNCHANGED <<fvars, pvars, gvars, svars, tvars, http_requests, inputs, use_disk, tile_requests, metadata, tstate,
                   tattempt, pos, permits, tile_files, local_results, gathered, entered,
                   success_count, calls, qvars, fsvars, mosaic>>

\* download_satellite_map_async after asyncio.run: sort, count, threshold,
\* stitch, return.
AsyncFinish ==
    /\ strategy = "async" /\ pc[0] = "download"
    /\ as_completed_exhausted
    /\ LET sorted == SortByIndex(results)
           count  == CountSuccess(sorted)
       IN /\ results' = sorted
          /\ success_count' = count
          /\ IF TooManyFailures(count, total_tiles)
             THEN /\ ret' = [ret EXCEPT ![0] = ReturnNone]
                  /\ UNCHANGED <<mosaic, metadata>>
             ELSE /\ mosaic' = stitch_mosaic(tiles_for_stitch(sorted), num_rows, num_cols)
                  /\ metadata' = FinalMetadata("async", count)
                  /\ ret' = [ret EXCEPT ![0] = [mosaic |-> "image", metadata |-> "dict"]]
    /\ pc' = [pc EXCEPT ![0] = "done"]
    /\ UNCHANGED <<fvars, pvars, gvars, svars, tvars, http_requests, inputs, use_disk, tile_requests, tstate, tattempt, pos,
                   permits, tile_files, local_results, gathered, entered, calls, qvars,
                   fsvars>>

\* ------------------------------------------------------------------------
\* MPI strategy (maps_mpi.py), two or more ranks
\* ------------------------------------------------------------------------

\* Rank r's loop over my_tiles: one HTTP attempt for its current tile; when
\* download_single_tile returns, the tile is appended to local_results; an
\* exception that leaves download_single_tile leaves the rank's call.
MpiTile(r) ==
    /\ RunsMpi /\ pc[r] = "download"
    /\ SliceStart(r) + pos[r] < SliceEnd(r)
    /\ \E resp \in Responses :
         LET k  == SliceStart(r) + pos[r]
             st == TileAfter("single", k, resp)
         IN /\ tattempt' = AttemptAfter(k, st)
            /\ http_requests' = Issued(http_requests)
            /\ tstate' = [tstate EXCEPT ![k] = st]
            /\ calls' = CallsAfter(k)
            /\ CASE st = "running" -> UNCHANGED <<pos, local_results, pc, ret>>
                 [] st = "raised" ->
                      /\ pc' = [pc EXCEPT ![r] = "done"]
                      /\ ret' = [ret EXCEPT ![r] = Raised("fetch")]
                      /\ UNCHANGED <<pos, local_results>>
                 [] OTHER ->
                      /\ pos' = [pos EXCEPT ![r] = @ + 1]
                      /\ local_results' =
                           [local_results EXCEPT ![r] =
                              Append(@, [row |-> Req(k).row, col |-> Req(k).col,
                                         index |-> Req(k).index, image |-> ImageOf(k, st)])]
                      /\ UNCHANGED <<pc, ret>>
    /\ UNCHANGED <<fvars, pvars, gvars, svars, tvars, inputs, use_disk, tile_requests, metadata, permits,
                   results, tile_files, gathered, entered, success_count, qvars, fsvars,
                   mosaic>>

\* As MpiGather, with a rank whose slice is empty returning (None, None)
\* without calling comm.gather.
MpiGather_SkipsEmpty(r) ==
    /\ RunsMpi /\ pc[r] = "download"
    /\ SliceStart(r) + pos[r] = SliceEnd(r)
    /\ LET empty == r # 0 /\ SliceStart(r) = SliceEnd(r)
       IN /\ gathered' = IF empty THEN gathered
                         ELSE [gathered EXCEPT ![r] = serialize_all(local_results[r])]
          /\ entered' = IF empty THEN entered ELSE entered \cup {r}
    /\ pc' = [pc EXCEPT ![r] = IF r = 0 THEN "gather" ELSE "done"]
    /\ ret' = IF r = 0 THEN ret ELSE [ret EXCEPT ![r] = ReturnNone]
    /\ UNCHANGED <<fvars, pvars, gvars, svars, tvars, http_requests, inputs, use_disk, tile_requests, metadata, tstate,
                   tattempt, pos, permits, results, tile_files, local_results,
                   success_count, calls, qvars, fsvars, mosaic>>

\* Rank r serializes its results and calls comm.gather; a rank other than 0
\* then returns (None, None).
MpiGather(r) ==
    /\ RunsMpi /\ pc[r] = "download"
    /\ SliceStart(r) + pos[r] = SliceEnd(r)
    /\ gathered' = [gathered EXCEPT ![r] = serialize_all(local_results[r])]
    /\ entered' = entered \cup {r}
    /\ pc' = [pc EXCEPT ![r] = IF r = 0 THEN "gather" ELSE "done"]
    /\ ret' = IF r = 0 THEN ret ELSE [ret EXCEPT ![r] = ReturnNone]
    /\ UNCHANGED <<fvars, pvars, gvars, svars, tvars, http_requests, inputs, use_disk, tile_requests, metadata, tstate,
                   tattempt, pos, permits, results, tile_files, local_results,
                   success_count, calls, qvars, fsvars, mosaic>>

\* Rank 0 once gather has returned: rebuild all_tiles, sort, count, stitch,
\* return. There is no threshold check here.
MpiRoot ==
    /\ RunsMpi /\ pc[0] = "gather"
    /\ entered = Ranks
    /\ LET all_tiles == SortByIndex(reconstruct_all(ConcatRanks(gathered, size)))
           count     == CountImages(all_tiles)
       IN /\ results' = all_tiles
          /\ success_count' = count
          /\ mosaic' = stitch_mosaic(all_tiles, num_rows, num_cols)
          /\ metadata' = FinalMetadata("mpi", count)
          /\ ret' = [ret EXCEPT ![0] = [mosaic |-> "image", metadata |-> "dict"]]
    /\ pc' = [pc EXCEPT ![0] = "done"]
    /\ UNCHANGED <<fvars, pvars, gvars, svars, tvars, http_requests, inputs, use_disk, tile_requests, tstate, tattempt, pos,
                   permits, tile_files, local_results, gathered, entered, calls, qvars,
                   fsvars>>

Next ==
    \/ \E r \in Ranks : Begin(r)
    \/ SequentialMemoryTile
    \/ SequentialDiskTile
    \/ SequentialFinish
    \/ PoolSubmit
    \/ PoolAsCompleted
    \/ PoolStart
    \/ \E k \in Tiles : PoolAttempt(k)
    \/ \E k \in Tiles : PoolCollect(k)
    \/ FastFinish
    \/ \E k \in Tiles : AsyncAcquire(k)
    \/ \E k \in Tiles : AsyncAttempt(k)
    \/ \E k \in Tiles : AsyncCollect(k)
    \/ AsyncFinish
    \/ \E r \in Ranks : MpiTile(r)
    \/ \E r \in Ranks : MpiGather(r)
    \/ MpiRoot

Spec == Init /\ [][Next]_vars

\* ------------------------------------------------------------------------
\* SliceSpec: the MPI partition of a request list of any length
\* ------------------------------------------------------------------------

PartInit ==
    /\ FetchIdle
    /\ GridIdle
    /\ StitchIdle
    /\ JobIdle
    /\ part_total \in 0..MaxPartTiles
    /\ part_size \in 2..MaxPartRanks
    /\ part_slices = <<>>

\* Rank r computes start_idx and end_idx of its slice; the ranks are separate
\* processes and do so in any order.
PartitionRank(r) ==
    /\ r \notin DOMAIN part_slices
    /\ part_slices' =
         [q \in DOMAIN part_slices \cup {r} |->
            IF q = r
            THEN [start_idx |-> mpi_start_idx(r, part_size, part_total),
                  end_idx   |-> mpi_end_idx(r, part_size, part_total)]
            ELSE part_slices[q]]
    /\ UNCHANGED <<fvars, gvars, svars, jvars, part_total, part_size>>

PartNext == \E r \in 0..(part_size - 1) : PartitionRank(r)

SliceSpec == PartInit /\ [][PartNext]_vars

\* ------------------------------------------------------------------------
\* GridSpec: the tile centres calculate_tile_grid lays out, tile by tile
\* ------------------------------------------------------------------------

MaxLayout   == 3    \* GridSpec: largest num_rows and num_cols
MaxStepPx   == 2    \* GridSpec: largest tile_size_px
MaxCenterPx == 1    \* GridSpec: largest centre coordinate, in half pixels

GridInit ==
    /\ FetchIdle
    /\ PartIdle
    /\ StitchIdle
    /\ JobIdle
    /\ grid_in \in [num_rows : 1..MaxLayout, num_cols : 1..MaxLayout,
                    tile_size_px : 1..MaxStepPx,
                    cx : 0..MaxCenterPx, cy : 0..MaxCenterPx]
    /\ grid_centers = <<>>

\* for i in range(num_rows): for j in range(num_cols): the next iteration.
TileLoop ==
    /\ Len(grid_centers) < grid_in.num_rows * grid_in.num_cols
    /\ LET i == Len(grid_centers) \div grid_in.num_cols
           j == Len(grid_centers) % grid_in.num_cols
       IN grid_centers' = Append(grid_centers, tile_center(i, j, grid_in))
    /\ UNCHANGED <<fvars, pvars, svars, jvars, grid_in>>

GridNext == TileLoop

GridSpec == GridInit /\ [][GridNext]_vars

\* ------------------------------------------------------------------------
\* TermSpec: one download job run to its end, with its HTTP requests counted
\* ------------------------------------------------------------------------

MaxTermTiles == 1   \* TermSpec: largest grid (num_rows * num_cols)

TermInit == JobInit(TRUE)

TermBegin(r) == Begin(r) /\ Len(tile_requests') <= MaxTermTiles

TermNext ==
    \/ \E r \in Ranks : TermBegin(r)
    \/ SequentialMemoryTile
    \/ SequentialDiskTile
    \/ SequentialFinish
    \/ PoolSubmit
    \/ PoolAsCompleted
    \/ PoolStart
    \/ \E k \in Tiles : PoolAttempt(k)
    \/ \E k \in Tiles : PoolCollect(k)
    \/ FastFinish
    \/ \E k \in Tiles : AsyncAcquire(k)
    \/ \E k \in Tiles : AsyncAttempt(k)
    \/ \E k \in Tiles : AsyncCollect(k)
    \/ AsyncFinish
    \/ \E r \in Ranks : MpiTile(r)
    \/ \E r \in Ranks : MpiGather(r)
    \/ MpiRoot

\* Every HTTP call ends, with a response or an exception, within its timeout
\* (timeout=15, timeout=10, ClientTimeout(total=30)), every sleep ends, and the
\* operating system, the executor, the event loop and mpirun keep running
\* what can run: while some step of the job is possible, one is taken.
TermSpec == TermInit /\ [][TermNext]_vars /\ WF_vars(TermNext)

\* The MPI strategy alone, on two or more ranks, under mpirun's scheduling:
\* every rank process keeps running up to its gather, and every HTTP call
\* ends (timeout=15).
MpiInit == Init /\ strategy = "mpi" /\ has_mpi /\ size >= 2

MpiNext ==
    \/ \E r \in Ranks : Begin(r)
    \/ \E r \in Ranks : MpiTile(r)
    \/ \E r \in Ranks : MpiGather(r)
    \/ MpiRoot

MpiSpec ==
    /\ MpiInit
    /\ [][MpiNext]_vars
    /\ WF_vars(\E r \in Ranks : Begin(r))
    /\ WF_vars(\E r \in Ranks : MpiTile(r))
    /\ WF_vars(\E r \in Ranks : MpiGather(r))

\* The async strategy alone, under the event loop's scheduling: a coroutine
\* that can take a permit is resumed, and every HTTP call ends (ClientTimeout).
AsyncInit == Init /\ strategy = "async"

AsyncNext ==
    \/ \E r \in Ranks : Begin(r)
    \/ \E k \in Tiles : AsyncAcquire(k)
    \/ \E k \in Tiles : AsyncAttempt(k)
    \/ \E k \in Tiles : AsyncCollect(k)
    \/ AsyncFinish

AsyncSpec ==
    /\ AsyncInit
    /\ [][AsyncNext]_vars
    /\ WF_vars(\E k \in Tiles : AsyncAcquire(k))
    /\ WF_vars(\E k \in Tiles : AsyncAttempt(k))

\* ------------------------------------------------------------------------
\* EntrySpec: the unified entry point download_satellite_map (maps.py)
\* ------------------------------------------------------------------------

\* A call of download_satellite_map: it takes no output_path and no use_disk
\* and hands none on. Under mpirun every rank makes the call; several ranks
\* are followed where they work together, that is when the call reaches
\* download_satellite_map_mpi.
EntryInit ==
    /\ FetchIdle
    /\ PartIdle
    /\ GridIdle
    /\ StitchIdle
    /\ strategy = "none"
    /\ force_sequential \in BOOLEAN
    /\ has_fast \in BOOLEAN
    /\ has_async \in BOOLEAN
    /\ metered = FALSE
    /\ has_mpi \in BOOLEAN
    /\ api_key \in BOOLEAN
    /\ use_disk = "None"
    /\ output_path = FALSE
    /\ max_workers = 1
    /\ size \in (IF has_mpi /\ ~force_sequential /\ ~has_fast THEN 1..MaxRanks ELSE {1})
    /\ pc = [r \in 0..(size - 1) |-> "entry"]
    /\ tile_requests = <<>>
    /\ metadata = [num_rows |-> 0, num_cols |-> 0, total_tiles |-> 0]
    /\ tstate = <<>>
    /\ tattempt = <<>>
    /\ pos = [r \in 0..(size - 1) |-> 0]
    /\ permits = 0
    /\ results = <<>>
    /\ tile_files = NoFiles
    /\ local_results = [r \in 0..(size - 1) |-> <<>>]
    /\ gathered = [r \in 0..(size - 1) |-> <<>>]
    /\ entered = {}
    /\ success_count = 0
    /\ calls = <<>>
    /\ finished_futures = <<>>
    /\ yield_any = {}
    /\ thread_of = NoThreads
    /\ local_session = NoSessions
    /\ sessions = <<>>
    /\ http_requests = 0
    /\ temp_dir = "None"
    /\ temp_files = {}
    /\ output_file = FALSE
    /\ mosaic = NoMosaic
    /\ ret = [r \in 0..(size - 1) |-> NotReturned]

\* _HAS_MPI: mpi4py could be imported and COMM_WORLD has more than one rank.
_HAS_MPI == has_mpi /\ size > 1

\* The function download_satellite_map calls: the sequential strategy under
\* force_sequential; otherwise download_satellite_map_fast if maps_fast can be
\* imported; otherwise the MPI strategy if _HAS_MPI, and the sequential
\* strategy last. _HAS_ASYNC is not read and download_satellite_map_async is
\* not called.
Callee ==
    IF force_sequential THEN "sequential"
    ELSE IF has_fast THEN "fast"
    ELSE IF _HAS_MPI THEN "mpi"
    ELSE "sequential"

\* Rank r's call of download_satellite_map up to the call of the strategy.
\* download_satellite_map_fast is called with rate_limit=25.0, a keyword it
\* does not have: the call raises TypeError before its body runs, which
\* `except ImportError` does not catch.
download_satellite_map(r) ==
    /\ pc[r] = "entry"
    /\ strategy' = Callee
    /\ IF Callee = "fast"
       THEN /\ pc' = [pc EXCEPT ![r] = "done"]
            /\ ret' = [ret EXCEPT ![r] = Raised("TypeError")]
       ELSE /\ pc' = [pc EXCEPT ![r] = "start"]
            /\ UNCHANGED ret
    /\ UNCHANGED <<fvars, pvars, gvars, svars, tvars, http_requests, metered, force_sequential, has_fast, has_async, has_mpi,
                   api_key, use_disk, output_path, max_workers, size, tile_requests,
                   metadata, tstate, tattempt, pos, permits, results, tile_files,
                   local_results, gathered, entered, success_count, calls, qvars,
                   fsvars, mosaic>>

EntryNext ==
    \/ \E r \in Ranks : download_satellite_map(r)
    \/ \E r \in Ranks : Begin(r)
    \/ SequentialMemoryTile
    \/ SequentialFinish
    \/ \E r \in Ranks : MpiTile(r)
    \/ \E r \in Ranks : MpiGather(r)
    \/ MpiRoot

EntrySpec == EntryInit /\ [][EntryNext]_vars

\* ------------------------------------------------------------------------
\* StitchSpec: stitch_mosaic called twice over one grid
\* ------------------------------------------------------------------------

\* The grids and tile geometries stitch_mosaic is called with; the crop
\* leaves every tile at least one row of pixels.
Geoms ==
    {g \in [num_rows : 1..MaxStitchTiles, num_cols : 1..MaxStitchTiles,
            tile_size_px : 1..MaxTilePx, scale : Scales, crop_bottom : 0..MaxCrop] :
        /\ g.num_rows * g.num_cols <= MaxStitchTiles
        /\ g.crop_bottom < actual_tile_size(g.tile_size_px, g.scale)}

\* The tile lists the strategies build for grid g: one tile per request, in
\* request order, with the fetcher's image for the requests in `ok`.
TileList(g, ok) ==
    LET reqs == outer_loop(g.num_rows, g.num_rows, g.num_cols)
    IN [n \in 1..Len(reqs) |->
          [row |-> reqs[n].row, col |-> reqs[n].col,
           image |-> IF n \in ok
                     THEN CroppedPicture(reqs[n].index, g.tile_size_px, g.scale,
                                         g.crop_bottom)
                     ELSE NoPicture]]

StitchInit ==
    /\ FetchIdle
    /\ PartIdle
    /\ GridIdle
    /\ JobIdle
    /\ geom \in Geoms
    /\ \E ok \in SUBSET (1..(geom.num_rows * geom.num_cols)) :
         tiles_a = TileList(geom, ok)
    /\ tiles_b = tiles_a
    /\ mosaic_a = NoCanvas
    /\ mosaic_b = NoCanvas

\* The two lists hold the same tiles, in any order.
SameTiles == {tiles_a[n] : n \in 1..Len(tiles_a)} = {tiles_b[n] : n \in 1..Len(tiles_b)}

\* The two lists name the same (row, col) at every position.
SameOrder ==
    \A n \in 1..Len(tiles_a) :
        tiles_a[n].row = tiles_b[n].row /\ tiles_a[n].col = tiles_b[n].col

\* mosaic = stitch_mosaic(tiles, ...) on the first list.
StitchFirst ==
    /\ geom.num_rows > 0 /\ mosaic_a = NoCanvas
    /\ mosaic_a' = stitch_mosaic_image(tiles_a, geom.num_rows, geom.num_cols,
                                       geom.tile_size_px, geom.scale, geom.crop_bottom)
    /\ UNCHANGED <<fvars, pvars, gvars, jvars, geom, tiles_a, tiles_b, mosaic_b>>

\* The second list comes in another order (completion order): two
\* neighbours change places.
Reorder(n) ==
    /\ mosaic_a # NoCanvas /\ mosaic_b = NoCanvas
    /\ SameTiles
    /\ n \in 1..(Len(tiles_b) - 1)
    /\ tiles_b' = [tiles_b EXCEPT ![n] = tiles_b[n + 1], ![n + 1] = tiles_b[n]]
    /\ UNCHANGED <<fvars, pvars, gvars, jvars, geom, tiles_a, mosaic_a, mosaic_b>>

\* The second list differs in which tiles succeeded: a tile fetched for the
\* first list failed for the second.
Lose(n) ==
    /\ mosaic_a # NoCanvas /\ mosaic_b = NoCanvas
    /\ SameOrder
    /\ n \in 1..Len(tiles_b)
    /\ tiles_b[n].image # NoPicture
    /\ tiles_b' = [tiles_b EXCEPT ![n].image = NoPicture]
    /\ UNCHANGED <<fvars, pvars, gvars, jvars, geom, tiles_a, mosaic_a, mosaic_b>>

\* mosaic = stitch_mosaic(tiles, ...) on the second list.
StitchSecond ==
    /\ mosaic_a # NoCanvas /\ mosaic_b = NoCanvas
    /\ mosaic_b' = stitch_mosaic_image(tiles_b, geom.num_rows, geom.num_cols,
                                       geom.tile_size_px, geom.scale, geom.crop_bottom)
    /\ UNCHANGED <<fvars, pvars, gvars, jvars, geom, tiles_a, tiles_b, mosaic_a>>

StitchNext ==
    \/ StitchFirst
    \/ \E n \in 1..MaxStitchTiles : Reorder(n)
    \/ \E n \in 1..MaxStitchTiles : Lose(n)
    \/ StitchSecond

StitchSpec == StitchInit /\ [][StitchNext]_vars

\* ------------------------------------------------------------------------
\* Properties of the download job (Spec)
\* ------------------------------------------------------------------------

\* Rank 0 (the only rank outside MPI) has returned from a run that had a key.
Finished == pc[0] = "done" /\ api_key /\ ret[0].mosaic # "raise"

SuccessfulTiles == {k \in Tiles : tstate[k] = "ok"}

SequentialDisk == strategy = "sequential" /\ use_disk = "True"

\* The index of a collected tile; the sequential strategy keeps (row, col) only.
ResultIndex(t) == IF "index" \in DOMAIN t THEN t.index ELSE t.row * num_cols + t.col

\* How often index k occurs in what the download phase collected: the result
\* list, or tile_files in the sequential disk mode, which keeps no list.
CollectionCount(k) ==
    IF SequentialDisk
    THEN Cardinality({c \in DOMAIN tile_files : c[1] * num_cols + c[2] = k})
    ELSE Cardinality({n \in 1..Len(results) : ResultIndex(results[n]) = k})

CollectionSize ==
    IF SequentialDisk THEN Cardinality(DOMAIN tile_files) ELSE Len(results)

\* C1 as stated: under every strategy the collection handed to post-processing
\* holds exactly one result per planned request, whatever the fetches returned.
C1_OneResultPerRequest_AllStrategies ==
    Finished =>
        /\ CollectionSize = total_tiles
        /\ \A k \in Tiles : CollectionCount(k) = 1

\* C1 amended: the sequential in-memory, thread-pool, async and MPI strategies
\* collect exactly one result per planned request (every index 0..total_tiles-1
\* exactly once); the sequential disk mode records successful tiles only, one
\* tile_files entry per tile that was fetched and none for a failed tile.
C1_OneResultPerRequest ==
    Finished =>
        IF SequentialDisk
        THEN \A k \in Tiles : CollectionCount(k) = (IF tstate[k] = "ok" THEN 1 ELSE 0)
        ELSE /\ CollectionSize = total_tiles
             /\ \A k \in Tiles : CollectionCount(k) = 1

C1_Witness ==
    /\ Finished /\ strategy = "mpi" /\ total_tiles >= 3
    /\ Len(results) = total_tiles
    /\ \E k \in Tiles : tstate[k] = "fail"
    /\ \E k \in Tiles : tstate[k] = "ok"

\* C2: in every strategy a run in which fewer than half of the tiles succeeded
\* returns (None, None) and stitches no mosaic.
C2_NoMosaicBelowHalf ==
    (Finished /\ 2 * Cardinality(SuccessfulTiles) < total_tiles) =>
        /\ ret[0] = ReturnNone
        /\ ~mosaic.made

C4_GridRowMajor ==
    tile_requests # <<>> =>
        /\ num_rows >= 1 /\ num_cols >= 1
        /\ Len(tile_requests) = num_rows * num_cols
        /\ metadata.total_tiles = Len(tile_requests)
        /\ \A k \in 0..(Len(tile_requests) - 1) :
             /\ tile_requests[k + 1].index = k
             /\ tile_requests[k + 1].row = k \div num_cols
             /\ tile_requests[k + 1].col = k % num_cols
        /\ {tile_requests[p].index : p \in 1..Len(tile_requests)}
             = 0..(num_rows * num_cols - 1)

C4_Witness ==
    /\ Len(tile_requests) = 6 /\ num_rows = 2 /\ num_cols = 3
    /\ tile_requests[5] = [row |-> 1, col |-> 1, index |-> 4]

\* The payload tile k carries in the final list of the strategy, as a function
\* of the tile's fetch outcome alone.
ExpectedPayloadOk(t, k) ==
    CASE strategy = "mpi" -> t.image = [tile |-> k, enc |-> "reopened"]
      [] use_disk = "True" -> t.file = TilePath(Req(k).row, Req(k).col) /\ t.success
      [] OTHER -> t.image = DecodedImage(k) /\ t.success

ExpectedPayloadFail(t) ==
    CASE strategy = "mpi" -> t.image = NoImage
      [] use_disk = "True" -> t.file = NoFile /\ ~t.success
      [] OTHER -> t.image = NoImage /\ ~t.success

\* C5: in the thread-pool, async and MPI strategies the final list is in
\* strictly ascending index order and is determined, entry by entry, by the
\* per-tile fetch outcomes, whatever the completion order was; so is every
\* slot of the stitched mosaic.
C5_SortedDeterministic ==
    (Finished /\ (strategy \in {"fast", "async"} \/ RunsMpi)) =>
        /\ Len(results) = total_tiles
        /\ \A n \in 1..Len(results) :
             /\ n > 1 => results[n - 1].index < results[n].index
             /\ results[n].index = n - 1
             /\ results[n].row = Req(n - 1).row
             /\ results[n].col = Req(n - 1).col
             /\ IF tstate[n - 1] = "ok"
                THEN ExpectedPayloadOk(results[n], n - 1)
                ELSE ExpectedPayloadFail(results[n])
        /\ mosaic.made =>
             \A k \in Tiles :
                mosaic.cells[<<Req(k).row, Req(k).col>>].tile
                    = (IF tstate[k] = "ok" THEN k ELSE -1)

C5_Witness ==
    /\ Finished /\ strategy = "fast" /\ max_workers >= 2
    /\ total_tiles >= 2
    /\ mosaic.made
    /\ tstate[0] = "fail" /\ tstate[1] = "ok"
    /\ \A n \in 1..Len(results) : results[n].index = n - 1

\* C13: a call without an API key (none passed, none in the environment)
\* returns (None, None) on every rank straight from the key check: no grid is
\* planned, no fetcher is called (so no HTTP request is issued), no temp
\* directory is created, no output file is written and nothing is stitched.
C13_NoKeyNoEffects ==
    ~api_key =>
        /\ \A r \in Ranks :
             /\ pc[r] \in {"start", "done"}
             /\ pc[r] = "done" => ret[r] = ReturnNone
        /\ tile_requests = <<>> /\ tstate = <<>> /\ calls = <<>>
        /\ results = <<>> /\ tile_files = NoFiles
        /\ temp_dir = "None"
        /\ ~output_file
        /\ ~mosaic.made

\* A thread-pool call asked for disk mode and an output file, without a key.
C13_Witness ==
    /\ ~api_key /\ strategy = "fast" /\ use_disk = "True" /\ output_path
    /\ pc[0] = "done" /\ ret[0] = ReturnNone

\* The tile rank r is fetching, if it is inside its download loop.
CurrentTile(r) ==
    IF pc[r] = "download" /\ tile_requests # <<>> /\ SliceStart(r) + pos[r] < SliceEnd(r)
    THEN {SliceStart(r) + pos[r]}
    ELSE {}

\* C14: under every strategy no request index ever has two fetches: a fetcher
\* is called at most once per index (not at all while the tile waits, once as
\* soon as it is in flight or has returned), the attempts of that one call
\* are made by the one loop that owns the tile, and two MPI ranks or the loops
\* of two workers are never on the same tile.
C14_NoDoubleFetch ==
    /\ \A i \in DOMAIN calls : calls[i] <= 1
    /\ \A k \in Tiles :
         /\ calls[Req(k).index] = (IF tstate[k] = "pending" THEN 0 ELSE 1)
         /\ tattempt[k] > 0 => tstate[k] = "running"
    /\ \A r1, r2 \in Ranks :
         r1 # r2 => CurrentTile(r1) \cap CurrentTile(r2) = {}
    /\ (RunsSequential \/ RunsMpi) =>
         \A k \in Running : \E r \in Ranks : k \in CurrentTile(r)

\* Two MPI ranks are each between two attempts of a tile of their own.
C14_Witness ==
    /\ RunsMpi /\ size >= 2
    /\ Cardinality(Running) = 2
    /\ \A k \in Running : calls[Req(k).index] = 1 /\ tattempt[k] > 0

\* The semaphore's accounting while the tasks run.
AsyncBounded ==
    (strategy = "async" /\ pc[0] = "download") =>
        /\ permits >= 0
        /\ Cardinality(Running) <= max_workers
        /\ permits + Cardinality(Running) = max_workers
        /\ \A k \in Pending : calls[Req(k).index] = 0 /\ tattempt[k] = 0

\* Every tile has been let into its fetch section.
AsyncAllAdmitted == tile_requests # <<>> /\ Pending = {}

\* C15: in the async strategy with max_concurrent = N, at most N tiles are
\* inside their fetch section at any moment (the permits taken and the
\* permits free add up to N), a tile that has no permit yet has issued no
\* request, and once the download has started every tile eventually gets a
\* permit.
C15_AsyncSemaphore ==
    /\ []AsyncBounded
    /\ (pc[0] = "download") ~> AsyncAllAdmitted

\* All N permits are taken, the N tiles holding them are between attempts,
\* and another tile waits for a permit.
C15_Witness ==
    /\ strategy = "async" /\ permits = 0
    /\ Cardinality(Running) = max_workers
    /\ \A k \in Running : tattempt[k] > 0
    /\ Pending # {}

\* The pool's width and its one-worker-per-item discipline.
PoolBounded ==
    strategy = "fast" =>
        /\ Cardinality(Running) <= max_workers
        /\ \A i \in DOMAIN calls : calls[i] <= 1
        /\ \A k \in Tiles : k >= pos[0] => tstate[k] = "pending"
        /\ Finished => \A k \in Tiles : calls[Req(k).index] = 1

\* This step appends one result to the thread-pool strategy's result list.
PoolAppends ==
    /\ strategy = "fast"
    /\ Len(results') = Len(results) + 1
    /\ SubSeq(results', 1, Len(results)) = results

\* The index of the result this step appends.
Appended == results'[Len(results')].index

\* A step that appends a result appends the one that finished first among
\* those not appended yet.
PoolAppendsOldest ==
    PoolAppends => finished_futures # <<>> /\ Appended = Head(finished_futures)

\* A step that appends a result appends one whose fetch has returned and that
\* was not appended before: any of those finished before as_completed was
\* called, and once these are through, the one that finished first.
PoolAppendsYielded ==
    PoolAppends =>
        /\ tstate[Appended] \in {"ok", "fail"}
        /\ Appended \notin Collected
        /\ \/ Appended \in yield_any
           \/ yield_any = {} /\ finished_futures # <<>> /\ Appended = Head(finished_futures)

\* The only other change to the result list is the sort, made when every
\* future has finished and has been collected.
PoolSortsLast ==
    (strategy = "fast" /\ results' # results /\ ~PoolAppends) =>
        /\ Returned = Tiles
        /\ Len(results) = total_tiles
        /\ pc'[0] = "done"
        /\ Len(results') = total_tiles
        /\ \A n \in 1..Len(results') : results'[n].index = n - 1

\* C16 as stated: the pool runs at most W fetches at once, each work item is
\* run by exactly one worker, results are appended strictly in the order the
\* fetches complete, and the list is sorted only after all have completed.
C16_PoolCompletionOrder ==
    /\ []PoolBounded
    /\ [][PoolAppendsOldest /\ PoolSortsLast]_vars

\* C16 amended: the pool runs at most W fetches at once, each work item is
\* run by exactly one worker, every result is appended after its own fetch
\* completed, in the order as_completed yields: the futures already finished
\* when the collection loop starts in any order, the others in completion
\* order; the list is sorted only after all have completed.
C16_PoolYieldOrder ==
    /\ []PoolBounded
    /\ [][PoolAppendsYielded /\ PoolSortsLast]_vars

\* With two workers the second tile finished first and is the first result,
\* while the first tile is still between attempts.
C16_Witness ==
    /\ strategy = "fast" /\ max_workers = 2 /\ pc[0] = "collect"
    /\ Len(results) = 1 /\ results[1].index = 1
    /\ tstate[0] = "running" /\ tattempt[0] > 0

\* C17: in the sequential strategy, memory or disk mode, the loop is on one
\* tile at a time and goes through the list in ascending index order: every
\* tile before the current one has returned its final result, no fetcher call
\* has been made for any tile after it, at most one fetch is between attempts
\* (the current tile's), and the in-memory list holds the tiles fetched so
\* far in index order.
C17_SequentialOrder ==
    (RunsSequential /\ tile_requests # <<>>) =>
        /\ pos[0] \in 0..total_tiles
        /\ \A k \in Tiles :
             /\ k < pos[0] => tstate[k] \in {"ok", "fail"} /\ calls[Req(k).index] = 1
             /\ k > pos[0] => tstate[k] = "pending" /\ calls[Req(k).index] = 0
        /\ Cardinality(Running) <= 1
        /\ Running \subseteq {pos[0]}
        /\ use_disk = "False" =>
             /\ Len(results) = pos[0]
             /\ \A n \in 1..Len(results) :
                  results[n].row = Req(n - 1).row /\ results[n].col = Req(n - 1).col

\* Disk mode, the loop on its third tile after a failed and a fetched one,
\* with tiles still to come.
C17_Witness ==
    /\ strategy = "sequential" /\ use_disk = "True" /\ pc[0] = "download"
    /\ total_tiles >= 4 /\ pos[0] = 2
    /\ tstate[0] = "fail" /\ tstate[1] = "ok"
    /\ tstate[2] = "running" /\ tattempt[2] > 0

\* The positions of index i in the list rank 0 rebuilt.
Rebuilt(i) == {m \in 1..Len(results) : results[m].index = i}

C20_FallbackIsSequential ==
    (strategy = "mpi" /\ (~has_mpi \/ size = 1)) =>
        /\ Ranks = {0}
        /\ pc[0] # "gather"
        /\ entered = {} /\ gathered[0] = <<>> /\ local_results[0] = <<>>
        /\ temp_dir = "None" /\ ~output_file
        /\ tile_requests # <<>> => use_disk = "False" /\ Len(results) = pos[0]
        /\ pc[0] = "done" =>
             IF ~api_key \/ 2 * Cardinality(SuccessfulTiles) < total_tiles
             THEN ret[0] = ReturnNone /\ ~mosaic.made
             ELSE /\ ret[0] = [mosaic |-> "image", metadata |-> "dict"]
                  /\ metadata.download_method = "sequential"
                  /\ metadata.tiles_success = Cardinality(SuccessfulTiles)
                  /\ metadata.tiles_total = total_tiles
                  /\ results = [n \in 1..total_tiles |->
                                  [row |-> Req(n - 1).row, col |-> Req(n - 1).col,
                                   image |-> ImageOf(n - 1, tstate[n - 1])]]
                  /\ mosaic = stitch_mosaic(results, num_rows, num_cols)

\* mpi4py is there but the communicator has one rank: the call ended with the
\* sequential strategy's result for a grid of four or more tiles.
C20_Witness ==
    /\ strategy = "mpi" /\ has_mpi /\ size = 1 /\ api_key
    /\ pc[0] = "done" /\ total_tiles >= 4
    /\ ret[0] = [mosaic |-> "image", metadata |-> "dict"]
    /\ metadata.download_method = "sequential"
    /\ \E k \in Tiles : tstate[k] = "fail"

\* The per-tile files the download phase has written into temp_dir so far.
TileFilesWritten == {TilePath(Req(k).row, Req(k).col) : k \in SuccessfulTiles}

TileFails(k) == tstate[k] # "fail" /\ tstate'[k] = "fail"

\* A step in which a tile fails changes no other tile's fetch and does not
\* end any rank's call.
FailureStaysLocal ==
    \A k \in Tiles :
        TileFails(k) =>
            /\ \A j \in Tiles \ {k} : tstate'[j] = tstate[j] /\ tattempt'[j] = tattempt[j]
            /\ pc' = pc /\ ret' = ret

\* The step in which the call of rank 0 returns, with the mosaic or with
\* (None, None) for too many failures, starts from a state in which every tile
\* has been fetched to its final success or failure.
DecidesLast ==
    (api_key /\ ret[0] = NotReturned /\ ret'[0] # NotReturned /\ ret'[0].mosaic # "raise") =>
        \A k \in Tiles : tstate[k] \in {"ok", "fail"} /\ calls[Req(k).index] = 1

HasThreshold == RunsSequential \/ strategy = "async"

\* The entries of the result list that belong to failed tiles carry no image
\* and no file, and success = false where the strategy records it.
FailuresAsResults ==
    \A n \in 1..Len(results) :
        LET t == results[n]
        IN tstate[ResultIndex(t)] = "fail" =>
             /\ "image" \in DOMAIN t => t.image = NoImage
             /\ "file" \in DOMAIN t => t.file = NoFile
             /\ "success" \in DOMAIN t => ~t.success

HasPayload(t) == IF "file" \in DOMAIN t THEN t.file # NoFile ELSE t.image # NoImage

\* C30: every result of worker_memory, worker_disk and download_tile_async
\* has success = true exactly when it carries a payload: the image of its
\* tile in memory mode and in the async strategy, the path of the tile file
\* (which is then in the temp directory) in disk mode; success is true
\* exactly when the tile's fetch succeeded, so the result of a failed fetch
\* has no image and no file path.
C30_SuccessIffPayload ==
    strategy \in {"fast", "async"} =>
        \A n \in 1..Len(results) :
            LET t == results[n]
                k == t.index
            IN /\ t.success <=> HasPayload(t)
               /\ t.success <=> tstate[k] = "ok"
               /\ ("file" \in DOMAIN t) <=> (use_disk = "True")
               /\ ("image" \in DOMAIN t) <=> (use_disk # "True")
               /\ (t.success /\ use_disk = "True") =>
                    /\ t.file = TilePath(Req(k).row, Req(k).col)
                    /\ temp_dir = "exists" => t.file \in temp_files
               /\ (t.success /\ use_disk # "True") => t.image = DecodedImage(k)

\* Disk mode of the thread pool: two results collected, a failed tile
\* without a file path and a fetched tile with the path of its file.
C30_Witness ==
    /\ strategy = "fast" /\ use_disk = "True" /\ pc[0] = "collect"
    /\ Len(results) = 2
    /\ \E n \in 1..2 : ~results[n].success /\ results[n].file = NoFile
    /\ \E n \in 1..2 : results[n].success /\ results[n].file \in temp_files

\* The keys of the record calculate_tile_grid returns.
GridFields ==
    {"center_lat", "center_lon", "meters_per_pixel", "meters_per_tile", "num_rows",
     "num_cols", "total_tiles", "zoom", "tile_size_px"}

\* The keys under which the strategies record an elapsed time.
TimeFields == {"time", "download_time", "total_time"}

\* C31: on every run that returns metadata, the record holds the grid fields
\* as calculate_tile_grid computed them, tiles_total = num_rows * num_cols,
\* 0 <= tiles_success <= tiles_total with tiles_success the number of tiles
\* fetched, and the strategy has added its method name, the success count,
\* an elapsed time and the throughput.
C31_MetadataExtended ==
    (Finished /\ ret[0].metadata = "dict") =>
        /\ GridFields \subseteq DOMAIN metadata
        /\ metadata.center_lat = "center_lat" /\ metadata.center_lon = "center_lon"
        /\ metadata.meters_per_pixel = "meters_per_pixel"
        /\ metadata.meters_per_tile \in 1..2
        /\ metadata.zoom = "zoom" /\ metadata.tile_size_px = "tile_size_px"
        /\ metadata.total_tiles = metadata.num_rows * metadata.num_cols
        /\ metadata.total_tiles = Len(tile_requests)
        /\ metadata.tiles_total = metadata.num_rows * metadata.num_cols
        /\ 0 <= metadata.tiles_success /\ metadata.tiles_success <= metadata.tiles_total
        /\ metadata.tiles_success = Cardinality(SuccessfulTiles)
        /\ "download_method" \in DOMAIN metadata
        /\ TimeFields \cap DOMAIN metadata # {}
        /\ "throughput" \in DOMAIN metadata

\* ------------------------------------------------------------------------
\* Properties of the fetchers (FetchSpec)
\* ------------------------------------------------------------------------

\* The response fetcher f received on its i-th request.
Received(f, i) == fscript[i]

FetchersDone == \A f \in Fetchers : fstatus[f] \in {"ok", "fail"}

\* The attempt raises inside the try block: the HTTP call itself, or the
\* decoding of the body.
Raises(r) == r.kind = "exc" \/ IsDecodeError(r)

\* The attempt returns the image.
Succeeds(r) == IsHttp(r, 200) /\ r.image /\ ~r.corrupt

\* C6: on the same sequence of provider responses the fetchers of the four
\* strategies (download_single_tile for sequential and MPI,
\* download_tile_aggressive for the thread pool, download_tile_async for
\* async) all succeed or all fail, so the strategies mark the same tiles.
C6_SameOutcome ==
    FetchersDone => \A f, g \in Fetchers : fstatus[f] = fstatus[g]

\* C7: in each fetcher a 4xx response other than 429 ends the fetch at once
\* as a failure: it is the last request issued and no sleep follows it.
C7_ClientErrorNotRetried ==
    \A f \in Fetchers : \A i \in 1..fattempt[f] :
        Is4xxNot429(Received(f, i)) =>
            /\ i = fattempt[f]
            /\ fstatus[f] = "fail"
            /\ ~fsleeps[f][i]

\* Every fetcher got 403 on its first request and issued no other.
C7_Witness ==
    /\ IsHttp(fscript[1], 403)
    /\ \A f \in Fetchers : fattempt[f] = 1 /\ fstatus[f] = "fail"

\* C8: in each fetcher a 5xx response on an attempt that is not the last
\* allowed one is followed by a sleep and by another attempt; a fetch whose
\* last response was 5xx has failed only after max_retries attempts.
C8_ServerErrorRetried ==
    \A f \in Fetchers : \A i \in 1..fattempt[f] :
        Is5xx(Received(f, i)) =>
            /\ i < MaxRetries(f) =>
                 /\ fsleeps[f][i]
                 /\ fattempt[f] > i \/ fstatus[f] = "running"
            /\ (i = fattempt[f] /\ fstatus[f] = "fail") => i = MaxRetries(f)

\* C9: in each fetcher an HTTP 200 response that is not an image ends the
\* fetch as a failure: no further request is issued.
C9_NonImageNotRetried ==
    \A f \in Fetchers : \A i \in 1..fattempt[f] :
        IsNonImage200(Received(f, i)) =>
            /\ i = fattempt[f]
            /\ fstatus[f] = "fail"

\* The number of attempts a tile that always gets 429 is given.
RateLimitedAttempts(f) ==
    CASE f = "single" -> 3 [] f = "aggressive" -> 5 [] f = "async" -> 3

\* C10: in each fetcher a 429 on an attempt that is not the last allowed one
\* is followed by a sleep and another attempt, and a fetch that got 429 on
\* every attempt ends failed after exactly max_retries attempts (3, 5, 3).
C10_RateLimitRetried ==
    \A f \in Fetchers :
        /\ \A i \in 1..fattempt[f] :
             (IsHttp(Received(f, i), 429) /\ i < RateLimitedAttempts(f)) =>
                 /\ fsleeps[f][i]
                 /\ fattempt[f] > i \/ fstatus[f] = "running"
        /\ (/\ fstatus[f] # "running"
            /\ \A i \in 1..fattempt[f] : IsHttp(Received(f, i), 429)) =>
               /\ fattempt[f] = RateLimitedAttempts(f)
               /\ fstatus[f] = "fail"

C10_Witness ==
    /\ \A i \in 1..ScriptLen : IsHttp(fscript[i], 429)
    /\ fstatus = [f \in Fetchers |-> "fail"]
    /\ fattempt["single"] = 3 /\ fattempt["aggressive"] = 5 /\ fattempt["async"] = 3

\* C11: in each fetcher an exception raised inside an attempt (by the HTTP
\* call, or by decoding the body) never leaves the fetcher; on an attempt that
\* is not the last allowed one it is followed by a sleep and by another
\* attempt, and on the last allowed attempt by a failed result.
C11_ExceptionRetried ==
    \A f \in Fetchers :
        /\ fstatus[f] # "raised"
        /\ \A i \in 1..fattempt[f] :
             Raises(Received(f, i)) =>
                 /\ i < MaxRetries(f) =>
                      /\ fsleeps[f][i]
                      /\ fattempt[f] > i \/ fstatus[f] = "running"
                 /\ i = MaxRetries(f) => fstatus[f] = "fail"

\* A timeout, then a corrupt image body, then timeouts: every fetcher used
\* all its attempts and returned failure.
C11_Witness ==
    /\ fscript[1].kind = "exc" /\ IsDecodeError(fscript[2])
    /\ \A i \in 3..ScriptLen : fscript[i].kind = "exc"
    /\ fstatus = [f \in Fetchers |-> "fail"]
    /\ fattempt["single"] = 3 /\ fattempt["aggressive"] = 5 /\ fattempt["async"] = 3

\* The attempt with 0-based number `attempt` of fetcher f ended in a retryable
\* failure: the loop went on to the next iteration.
Retryable(f, attempt, r) == Attempt(f, attempt, r).next = "continue"

\* C12: a fetcher that has returned issued between 1 and max_retries requests
\* (3, 5 and 3); every request before the last one ended in a retryable
\* failure, so nothing is requested after a success or a permanent failure;
\* a success is returned exactly when the last response was a good image; and
\* when the last attempt too ended in a retryable failure, max_retries
\* requests were issued and the result is failure.
C12_AtMostMaxRetries ==
    \A f \in Fetchers :
        /\ fattempt[f] <= MaxRetries(f)
        /\ fattempt[f] <= (CASE f = "single" -> 3 [] f = "aggressive" -> 5 [] f = "async" -> 3)
        /\ \A i \in 1..(fattempt[f] - 1) :
             /\ ~Succeeds(Received(f, i))
             /\ Retryable(f, i - 1, Received(f, i))
        /\ fstatus[f] \in {"ok", "fail"} =>
             /\ fattempt[f] >= 1
             /\ fstatus[f] = "ok" <=> Succeeds(Received(f, fattempt[f]))
             /\ Retryable(f, fattempt[f] - 1, Received(f, fattempt[f])) =>
                  /\ fattempt[f] = MaxRetries(f)
                  /\ fstatus[f] = "fail"

\* Server errors throughout: the thread-pool fetcher issued five requests and
\* failed; a good image on the second request: download_single_tile returned
\* it after two requests.
C12_Witness ==
    \/ /\ \A i \in 1..ScriptLen : Is5xx(fscript[i])
       /\ fstatus["aggressive"] = "fail" /\ fattempt["aggressive"] = 5
       /\ fstatus["single"] = "fail" /\ fattempt["single"] = 3
    \/ /\ Is5xx(fscript[1]) /\ Succeeds(fscript[2])
       /\ fstatus["single"] = "ok" /\ fattempt["single"] = 2
       /\ fstatus["aggressive"] = "ok" /\ fattempt["aggressive"] = 2

\* ------------------------------------------------------------------------
\* Properties of the MPI partition (SliceSpec)
\* ------------------------------------------------------------------------

\* C18: for every list length and every rank count P >= 2 the slices the
\* ranks compute lie inside the list, have floor(total/P) + 1 elements on the
\* first (total mod P) ranks and floor(total/P) on the others, start at 0 on
\* rank 0, end at total on the last rank, follow one another without gap
\* (end of rank r = start of rank r + 1), are pairwise disjoint, and once
\* every rank has its slice each index 0..total-1 lies in exactly one.
C18_SlicesPartition ==
    /\ \A r \in DOMAIN part_slices :
         LET sl == part_slices[r]
         IN /\ 0 <= sl.start_idx /\ sl.start_idx <= sl.end_idx /\ sl.end_idx <= part_total
            /\ sl.end_idx - sl.start_idx
                 = (part_total \div part_size) + (IF r < part_total % part_size THEN 1 ELSE 0)
            /\ r = 0 => sl.start_idx = 0
            /\ r = part_size - 1 => sl.end_idx = part_total
            /\ (r + 1) \in DOMAIN part_slices => part_slices[r + 1].start_idx = sl.end_idx
            /\ \A r2 \in DOMAIN part_slices :
                 r2 # r => \/ sl.end_idx <= part_slices[r2].start_idx
                           \/ part_slices[r2].end_idx <= sl.start_idx
    /\ DOMAIN part_slices = 0..(part_size - 1) =>
         \A k \in 0..(part_total - 1) :
            Cardinality({r \in DOMAIN part_slices :
                           part_slices[r].start_idx <= k /\ k < part_slices[r].end_idx}) = 1

\* Seven tiles over three ranks: slices [0, 3), [3, 5) and [5, 7).
C18_Witness ==
    /\ part_total = 7 /\ part_size = 3
    /\ DOMAIN part_slices = 0..2
    /\ part_slices[0] = [start_idx |-> 0, end_idx |-> 3]
    /\ part_slices[1] = [start_idx |-> 3, end_idx |-> 5]
    /\ part_slices[2] = [start_idx |-> 5, end_idx |-> 7]

\* ------------------------------------------------------------------------
\* Properties of the entry point (EntrySpec)
\* ------------------------------------------------------------------------

\* The strategy the documentation of download_satellite_map selects.
Documented ==
    IF force_sequential THEN "sequential"
    ELSE IF has_async THEN "async"
    ELSE IF _HAS_MPI THEN "mpi"
    ELSE "sequential"

\* C29: download_satellite_map runs the sequential strategy under
\* force_sequential, otherwise the async strategy when aiohttp is available,
\* otherwise MPI when more than one rank is present and the sequential
\* strategy last; the call returns (mosaic, metadata) or (None, None).
C29_EntryPointSelects ==
    \A r \in Ranks :
        /\ pc[r] # "entry" => strategy = Documented
        /\ pc[r] = "done" =>
             ret[r] \in {ReturnNone, [mosaic |-> "image", metadata |-> "dict"]}

\* ------------------------------------------------------------------------
\* Properties of stitch_mosaic (StitchSpec)
\* ------------------------------------------------------------------------

\* The mosaics stitch_mosaic has returned so far.
Mosaics == {mosaic_a, mosaic_b} \ {NoCanvas}

\* C21 as stated: the mosaic is num_cols * (tile_size_px*scale - crop_bottom)
\* wide and num_rows * (tile_size_px*scale - crop_bottom) high.
C21_CropOnBothAxes ==
    \A m \in Mosaics :
        /\ m.width = geom.num_cols * (geom.tile_size_px * geom.scale - geom.crop_bottom)
        /\ m.height = geom.num_rows * (geom.tile_size_px * geom.scale - geom.crop_bottom)

\* C21 (amended): the mosaic is num_cols * tile_size_px*scale wide (the crop
\* takes rows off the bottom of a tile, never columns) and
\* num_rows * (tile_size_px*scale - crop_bottom) high; the 6x6 example gives
\* 7680 x 7440.
C21_MosaicDimensions ==
    /\ \A m \in Mosaics :
         /\ m.width = geom.num_cols * (geom.tile_size_px * geom.scale)
         /\ m.height = geom.num_rows * (geom.tile_size_px * geom.scale - geom.crop_bottom)
         /\ DOMAIN m.px = (0..(m.width - 1)) \X (0..(m.height - 1))
    /\ mosaic_width(6, 640, 2) = 7680
    /\ mosaic_height(6, 640, 2, 40) = 7440

\* A 2x2 grid stitched with a crop.
C21_Witness ==
    /\ mosaic_a # NoCanvas
    /\ geom.num_rows = 2 /\ geom.num_cols = 2
    /\ geom.crop_bottom > 0
    /\ mosaic_a.width > mosaic_a.height

\* The second list differs from the first only in which tiles have an image.
DiffersInSuccess ==
    /\ SameOrder
    /\ \E n \in 1..Len(tiles_a) : tiles_a[n].image # tiles_b[n].image

\* C22: two mosaics stitched over the same grid from tile lists that differ
\* only in which tiles succeeded have the same width and the same height.
C22_DimensionsIgnoreSuccess ==
    (mosaic_a # NoCanvas /\ mosaic_b # NoCanvas /\ SameOrder)
        => /\ mosaic_a.width = mosaic_b.width
           /\ mosaic_a.height = mosaic_b.height
           /\ DOMAIN mosaic_a.px = DOMAIN mosaic_b.px

\* Every tile succeeded for the first mosaic and none for the second, on a
\* grid of more than one tile.
C22_Witness ==
    /\ mosaic_a # NoCanvas /\ mosaic_b # NoCanvas
    /\ DiffersInSuccess
    /\ Len(tiles_a) >= 2
    /\ \A n \in 1..Len(tiles_a) :
         tiles_a[n].image # NoPicture /\ tiles_b[n].image = NoPicture
    /\ mosaic_b.width > 0

\* The pixels the image of tile t covers when its top-left corner is put at
\* (col * tile width, row * cropped tile height).
Region(t) ==
    {<<t.col * (geom.tile_size_px * geom.scale) + dx,
       t.row * (geom.tile_size_px * geom.scale - geom.crop_bottom) + dy>> :
        dx \in 0..(t.image.width - 1), dy \in 0..(t.image.height - 1)}

\* Each (row, col) occurs at most once in list s.
UniqueCells(s) ==
    \A n, m \in 1..Len(s) : (s[n].row = s[m].row /\ s[n].col = s[m].col) => n = m

\* Every image of list s has the cropped tile size.
CroppedSize(s) ==
    \A n \in 1..Len(s) :
        s[n].image # NoPicture
            => /\ s[n].image.width = geom.tile_size_px * geom.scale
               /\ s[n].image.height = geom.tile_size_px * geom.scale - geom.crop_bottom

\* C23: for a tile list in which each (row, col) occurs at most once and every
\* image has the cropped tile size, every permutation of the list is stitched
\* into the same mosaic, and the regions of distinct tiles do not overlap.
C23_PermutationInvariant ==
    (mosaic_a # NoCanvas /\ mosaic_b # NoCanvas /\ SameTiles
        /\ UniqueCells(tiles_a) /\ CroppedSize(tiles_a))
        => /\ mosaic_a = mosaic_b
           /\ \A n, m \in 1..Len(tiles_a) :
                (n # m /\ tiles_a[n].image # NoPicture /\ tiles_a[m].image # NoPicture)
                    => Region(tiles_a[n]) \cap Region(tiles_a[m]) = {}

\* A list with a failed tile and two fetched ones was stitched in two
\* different orders.
C23_Witness ==
    /\ mosaic_a # NoCanvas /\ mosaic_b # NoCanvas
    /\ SameTiles /\ tiles_a # tiles_b
    /\ UniqueCells(tiles_a) /\ CroppedSize(tiles_a)
    /\ Cardinality({n \in 1..Len(tiles_a) : tiles_a[n].image # NoPicture}) >= 2
    /\ \E n \in 1..Len(tiles_a) : tiles_a[n].image = NoPicture
    /\ tiles_b[1].image = NoPicture /\ tiles_a[1].image # NoPicture

\* The slot of grid cell (row, col): the box of one cropped tile whose
\* top-left corner is (col * cropped_tile_width, row * cropped_tile_height).
Slot(row, col) ==
    {<<col * (geom.tile_size_px * geom.scale) + dx,
       row * (geom.tile_size_px * geom.scale - geom.crop_bottom) + dy>> :
        dx \in 0..(geom.tile_size_px * geom.scale - 1),
        dy \in 0..(geom.tile_size_px * geom.scale - geom.crop_bottom - 1)}

\* Mosaic m shows list s: every tile with an image fills its slot, pixel for
\* pixel from the image's top-left corner, inside the mosaic; the slot of
\* every tile without an image is black.
Placed(s, m) ==
    \A n \in 1..Len(s) :
        LET t == s[n]
        IN /\ t.row < geom.num_rows /\ t.col < geom.num_cols
           /\ Slot(t.row, t.col) # {}
           /\ Slot(t.row, t.col) \subseteq DOMAIN m.px
           /\ \A p \in Slot(t.row, t.col) :
                m.px[p] = IF t.image # NoPicture
                          THEN <<t.image.id,
                                 p[1] - t.col * (geom.tile_size_px * geom.scale),
                                 p[2] - t.row * (geom.tile_size_px * geom.scale
                                                   - geom.crop_bottom)>>
                          ELSE Black

\* C24: after stitch_mosaic each tile with an image occupies the region whose
\* top-left corner is (col * cropped_tile_width, row * cropped_tile_height),
\* the region lies inside the mosaic, and the region of every tile without an
\* image is black.
C24_TilesInTheirSlots ==
    /\ mosaic_a # NoCanvas => Placed(tiles_a, mosaic_a)
    /\ mosaic_b # NoCanvas => Placed(tiles_b, mosaic_b)

\* A mosaic of two columns and two rows with a failed tile in the first
\* column and a fetched one in the second, stitched from a permuted list.
C24_Witness ==
    /\ mosaic_b # NoCanvas
    /\ geom.num_cols = 2 /\ geom.num_rows = 2
    /\ tiles_a # tiles_b
    /\ \E n, m \in 1..Len(tiles_b) :
         /\ tiles_b[n].col = 0 /\ tiles_b[n].image = NoPicture
         /\ tiles_b[m].col = 1 /\ tiles_b[m].row = 1 /\ tiles_b[m].image # NoPicture
         /\ mosaic_b.px[<<geom.tile_size_px * geom.scale,
                          geom.tile_size_px * geom.scale - geom.crop_bottom>>]
                = <<tiles_b[m].image.id, 0, 0>>

\* ------------------------------------------------------------------------
\* Properties of the tile layout (GridSpec)
\* ------------------------------------------------------------------------

CenterOf(i, j) == grid_centers[i * grid_in.num_cols + j + 1]
LaidOut(i, j) == i * grid_in.num_cols + j + 1 <= Len(grid_centers)
LayoutComplete ==
    /\ grid_in.num_rows > 0
    /\ Len(grid_centers) = grid_in.num_rows * grid_in.num_cols

\* C33: the tile centres form a regular grid in pixel space. Centres that
\* are neighbours in a row are exactly tile_size_px apart in x and level in
\* y, centres that are neighbours in a column are exactly tile_size_px apart
\* in y and level in x, and once every tile is laid out the offsets from the
\* centre pixel of tile (i, j) and of tile (num_rows-1-i, num_cols-1-j) are
\* exact negatives of each other. (Coordinates are in half pixels.)
C33_RegularCenteredGrid ==
    /\ \A n \in 1..Len(grid_centers) :
         LET c == grid_centers[n]
         IN /\ (c.col > 0 =>
                  /\ c.x - CenterOf(c.row, c.col - 1).x = 2 * grid_in.tile_size_px
                  /\ c.y = CenterOf(c.row, c.col - 1).y)
            /\ (c.row > 0 =>
                  /\ c.y - CenterOf(c.row - 1, c.col).y = 2 * grid_in.tile_size_px
                  /\ c.x = CenterOf(c.row - 1, c.col).x)
    /\ LayoutComplete =>
         \A i \in 0..(grid_in.num_rows - 1), j \in 0..(grid_in.num_cols - 1) :
            LET c == CenterOf(i, j)
                m == CenterOf(grid_in.num_rows - 1 - i, grid_in.num_cols - 1 - j)
            IN /\ c.row = i /\ c.col = j
               /\ c.x - grid_in.cx = -(m.x - grid_in.cx)
               /\ c.y - grid_in.cy = -(m.y - grid_in.cy)

\* A grid with an even and an odd side is laid out in full around a centre
\* that is not the origin: its corner tiles are mirror images and the middle
\* row lies on the centre line.
C33_Witness ==
    /\ LayoutComplete
    /\ grid_in.num_rows = 3 /\ grid_in.num_cols = 2 /\ grid_in.tile_size_px = 2
    /\ grid_in.cx = 1 /\ grid_in.cy = 1
    /\ CenterOf(0, 0).x = -1 /\ CenterOf(0, 0).y = -3
    /\ CenterOf(2, 1).x = 3 /\ CenterOf(2, 1).y = 5
    /\ CenterOf(1, 0).y = grid_in.cy


\* ------------------------------------------------------------------------
\* Properties of the thread pool's shared state (Spec)
\* ------------------------------------------------------------------------

\* The completed counter goes up by one with every append to the result list.
completed == Len(results)

\* A worker thread moved: inside the executor block a work item was taken,
\* or an iteration of a fetch ran.
WorkerStep ==
    /\ pc[0] \in {"download", "collect"}
    /\ tstate' # tstate \/ tattempt' # tattempt \/ tvars' # tvars

\* The coordinating thread alone changes the result list (and with it the
\* counter), while it is in the executor block or after it.
OnlyCoordinatorCollects ==
    (strategy = "fast" /\ results' # results) =>
        /\ ~WorkerStep
        /\ pc[0] = "collect"
        /\ completed' \in {completed, completed + 1}

\* A worker's step changes the state of its own work item and finishes its
\* own future, and nothing of the job's results.
WorkerBuildsOwnResult ==
    (strategy = "fast" /\ WorkerStep) =>
        /\ \E k \in Tiles :
             /\ \A q \in Tiles \ {k} : tstate'[q] = tstate[q] /\ tattempt'[q] = tattempt[q]
             /\ DOMAIN thread_of' \subseteq DOMAIN thread_of \cup {k}
             /\ \A q \in DOMAIN thread_of : thread_of'[q] = thread_of[q]
             /\ finished_futures' \in {finished_futures, Append(finished_futures, k)}
             /\ temp_files' \subseteq temp_files \cup {TilePath(Req(k).row, Req(k).col)}
        /\ UNCHANGED <<results, success_count, tile_files, mosaic, metadata, pc, ret,
                       pos, yield_any>>

\* Every session was created by one thread, no thread created two, and a
\* session has been used by no thread but its creator.
SessionsThreadLocal ==
    /\ \A n \in 1..Len(sessions) : sessions[n].users \subseteq {sessions[n].creator}
    /\ \A n, m \in 1..Len(sessions) :
         sessions[n].creator = sessions[m].creator => n = m
    /\ \A k \in DOMAIN thread_of :
         /\ LocalKey(thread_of[k]) \in DOMAIN local_session
         /\ sessions[local_session[LocalKey(thread_of[k])]].creator = thread_of[k]

\* C34: in the thread-pool strategy the result list and the completed
\* counter are changed only by the coordinating thread, a worker's step
\* changes only its own work item, its own future and its own tile file, and
\* an HTTP session is created at most once per thread and used only by the
\* thread that created it.
C34_WorkersShareNothing ==
    /\ [](strategy = "fast" => SessionsThreadLocal)
    /\ [][OnlyCoordinatorCollects /\ WorkerBuildsOwnResult]_vars

\* Two pool threads have each created a session and sent requests on it, and
\* the coordinating thread has collected both their results.
C34_Witness ==
    /\ strategy = "fast" /\ max_workers = 2
    /\ Len(sessions) = 2
    /\ \A n \in 1..2 : sessions[n].users = {sessions[n].creator}
    /\ \E k, q \in DOMAIN thread_of : thread_of[k] # thread_of[q]
    /\ completed = 2


\* ------------------------------------------------------------------------
\* Properties of the semaphore (AsyncSpec)
\* ------------------------------------------------------------------------

Planned == strategy = "async" /\ tile_requests # <<>>

\* The permits that are out are those of the tasks inside their fetch section.
PermitsHeldByRunning ==
    Planned => permits >= 0 /\ permits = max_workers - Cardinality(Running)

\* What one step does to task k and the semaphore: a task enters its fetch
\* section once, taking one permit; it keeps it from one attempt to the next,
\* sleep included; it gives it back when it leaves, however it leaves; and a
\* task that has left does not enter again.
PermitStep(k) ==
    /\ tstate[k] = "pending" =>
         \/ tstate'[k] = "pending"
         \/ tstate'[k] = "running" /\ permits > 0 /\ permits' = permits - 1
    /\ tstate[k] = "running" =>
         \/ tstate'[k] = "running" /\ (tattempt'[k] # tattempt[k] => permits' = permits)
         \/ tstate'[k] \in {"ok", "fail", "raised"} /\ permits' = permits + 1
    /\ tstate[k] \in {"ok", "fail", "raised"} => tstate'[k] = tstate[k]

\* The semaphore's count changes only as a task enters or leaves.
PermitsMoveWithTasks == tstate' = tstate => permits' = permits

\* Every task has left its fetch section.
AllTasksDone == Planned /\ \A k \in Tiles : tstate[k] \in {"ok", "fail", "raised"}

\* C35: in the async strategy each tile takes exactly one permit, holds it
\* across all of its attempts and the sleeps between them, and releases it
\* exactly once however the fetch ends; once every tile has completed all
\* max_concurrent permits are free.
C35_PermitPerTile ==
    /\ [](PermitsHeldByRunning /\ (AllTasksDone => permits = max_workers))
    /\ [][Planned => PermitsMoveWithTasks /\ \A k \in Tiles : PermitStep(k)]_vars

\* Two tasks took the one permit in turn, each once: both have completed,
\* one failed and one fetched its image, and the permit is free.
C35_Witness ==
    /\ AllTasksDone /\ total_tiles = 2 /\ max_workers = 1
    /\ permits = 1
    /\ tstate[0] = "fail" /\ tstate[1] = "ok"
    /\ \A k \in Tiles : calls[Req(k).index] = 1


\* ------------------------------------------------------------------------
\* Properties of the file behind a returned mosaic (Spec)
\* ------------------------------------------------------------------------

\* The job ran in disk mode without output_path and returned an image:
\* Image.open(mosaic_path) on mosaic.jpg inside the temp directory.
ReturnsImageFromTempDir ==
    /\ Finished
    /\ strategy \in {"sequential", "fast"}
    /\ use_disk = "True" /\ ~output_path
    /\ ret[0].mosaic = "image"

\* C36: when the sequential or thread-pool strategy runs in disk mode
\* without output_path and returns a mosaic image, the file behind that
\* image still exists once the function has returned.
C36_MosaicFileSurvives == ReturnsImageFromTempDir => MosaicFile \in temp_files


\* ------------------------------------------------------------------------
\* Properties of termination (TermSpec)
\* ------------------------------------------------------------------------

\* max_retries of the fetcher the strategy calls.
StrategyMaxRetries ==
    CASE strategy = "fast"  -> MaxRetries("aggressive")
      [] strategy = "async" -> MaxRetries("async")
      [] OTHER              -> MaxRetries("single")

AllReturned == \A r \in Ranks : pc[r] = "done"

\* A mosaic (or, written to output_path, None) with metadata, or (None, None).
JobOutcomes ==
    {ReturnNone, [mosaic |-> "image", metadata |-> "dict"],
     [mosaic |-> "None", metadata |-> "dict"]}

WritesFiles == use_disk = "True" \/ output_path

\* Every call has ended; it returned one of the job's outcomes, or a file
\* write failed in a job that writes files; and unless that happened or the
\* key was missing, every tile is a success or a failure.
EndsWithOutcome ==
    AllReturned =>
        /\ \A r \in Ranks :
              \/ ret[r] \in JobOutcomes
              \/ ret[r] = Raised("OSError") /\ WritesFiles
        /\ (api_key /\ ret[0] \in JobOutcomes) =>
              /\ total_tiles > 0
              /\ \A k \in Tiles : tstate[k] \in {"ok", "fail"}

ReturnedBeforeGather(r) == pc[r] = "done" /\ r \notin entered

\* The ranks either all take the early return or all reach the gather: a rank
\* that returned early is one without a key, and then no rank has gathered.
AllOrNoneGather ==
    RunsMpi =>
        /\ (\E r \in Ranks : ReturnedBeforeGather(r)) => ~api_key /\ entered = {}
        /\ AllReturned => entered = {} \/ entered = Ranks

\* What one step does to rank r's gather: it is called at the end of the
\* rank's download loop, and a rank that has called it does not call it again.
GatherStep(r) ==
    /\ (r \notin entered /\ r \in entered') =>
          /\ pc[r] = "download" /\ pc'[r] \in {"gather", "done"}
          /\ SliceStart(r) + pos[r] = SliceEnd(r)
    /\ r \in entered =>
          /\ r \in entered' /\ gathered'[r] = gathered[r]
          /\ pc[r] \in {"gather", "done"} /\ pc'[r] \in {"gather", "done"}

FastDisk == strategy = "fast" /\ use_disk = "True"

\* The file worker_disk writes for request k.
PathOf(k) == TilePath(Req(k).row, Req(k).col)

\* Two requests never share a file, so every tile fetched so far has a file
\* of its own in the temp directory.
DistinctTileFiles ==
    (FastDisk /\ temp_dir = "exists") =>
        /\ \A k, q \in Tiles : k # q => PathOf(k) # PathOf(q)
        /\ Cardinality(temp_files \ {MosaicFile}) =
             Cardinality({k \in Tiles : tstate[k] = "ok"})

\* The map built after the executor block has one entry for every successful
\* tile and no other: its keys are the successful tiles' (row, col), each
\* entry is that tile's file, and no two entries name the same file.
OneEntryPerSuccess ==
    (FastDisk /\ pc[0] = "done" /\ as_completed_exhausted) =>
        /\ DOMAIN tile_files = {<<Req(k).row, Req(k).col>> : k \in SuccessfulTiles}
        /\ Cardinality(DOMAIN tile_files) = Cardinality(SuccessfulTiles)
        /\ \A k \in SuccessfulTiles : tile_files[<<Req(k).row, Req(k).col>>] = PathOf(k)
        /\ \A c, d \in DOMAIN tile_files : c # d => tile_files[c] # tile_files[d]

\* C39: in disk mode of the thread-pool strategy no two workers write the
\* same temp file, the path being made from (row, col), which differs from
\* request to request, and the (row, col) -> file map handed to the
\* streaming assembler has exactly one entry per successful tile.
C39_OneFilePerTile == DistinctTileFiles /\ OneEntryPerSuccess

\* Two workers ran at once and each wrote its tile of a one-row grid; both
\* files are in the temp directory.
C39_Witness ==
    /\ FastDisk /\ temp_dir = "exists" /\ max_workers = 2
    /\ num_rows = 1 /\ num_cols = 2
    /\ DOMAIN thread_of = Tiles /\ thread_of[0] # thread_of[1]
    /\ \A k \in Tiles : tstate[k] = "ok"
    /\ temp_files = {PathOf(0), PathOf(1)}


====
